---- MODULE Spec2Model ----
(***************************************************************************)
(* Agent K backend (server.js): the POST /query and POST /suggest          *)
(* handlers, the hybrid retrieval they call and the output sanitizer, as   *)
(* a state machine.                                                        *)
(*                                                                         *)
(* Text model.  A JavaScript string is a sequence of tokens.  A token is   *)
(* a word (letters, digits, apostrophes, hyphens, in the case written), a  *)
(* punctuation chunk of Glued (written with no whitespace before it when   *)
(* it follows a token) or the line break NL.  Any two neighbouring tokens  *)
(* other than these are separated by one space.  The source's curly        *)
(* apostrophe and em dash are written ' and -- .                           *)
(***************************************************************************)
EXTENDS Integers, Sequences, FiniteSets, TLC

NL == "\n"

Glued == {".", "?", "!", ",", ":", ";", "??", "???"}

SentenceEnd == {".", "?", "!", "??", "???"}

(***************************************************************************)
(* Character-level operations on one token                                 *)
(***************************************************************************)
\* the element of a one-element set
Only(S) == CHOOSE x \in S : TRUE

UpperCase == "ABCDEFGHIJKLMNOPQRSTUVWXYZ"

LowerCase == "abcdefghijklmnopqrstuvwxyz"

\* the characters A-Z
UpperLetters == {SubSeq(UpperCase, k, k) : k \in 1..Len(UpperCase)}

\* the em dash, one character of the source
EmDash == "--"

\* String.prototype.length of one token
WordLen(w) == IF w \in {NL, EmDash} THEN 1 ELSE Len(w)

\* String.prototype.toLowerCase of one character
LowerChar(c) ==
    IF c \in UpperLetters
    THEN LET k == CHOOSE n \in 1..Len(UpperCase) : SubSeq(UpperCase, n, n) = c
         IN  SubSeq(LowerCase, k, k)
    ELSE c

RECURSIVE LowerChars(_)
LowerChars(w) == IF w = "" THEN "" ELSE LowerChar(Head(w)) \o LowerChars(Tail(w))

\* String.prototype.toLowerCase of one token
LowerWord(w) ==
    IF \E k \in 1..Len(w) : SubSeq(w, k, k) \in UpperLetters THEN LowerChars(w) ELSE w

\* String.prototype.toLowerCase
Lower(t) == [i \in DOMAIN t |-> LowerWord(t[i])]

\* n occurs inside the single word w
SubWord(n, w) == \E k \in 0..(Len(w) - Len(n)) : SubSeq(w, k + 1, k + Len(n)) = n

HasPrefix(w, p) == Len(p) <= Len(w) /\ SubSeq(w, 1, Len(p)) = p

HasSuffix(w, s) == Len(s) <= Len(w) /\ SubSeq(w, Len(w) - Len(s) + 1, Len(w)) = s

\* String.prototype.includes(needle): the needle's first word may end a
\* word of the text and its last word may begin one
Includes(t, n) ==
    IF n = <<>> THEN TRUE
    ELSE IF Len(n) = 1 THEN \E i \in DOMAIN t : SubWord(n[1], t[i])
    ELSE \E i \in 1..(Len(t) - Len(n) + 1) :
            /\ HasSuffix(t[i], n[1])
            /\ HasPrefix(t[i + Len(n) - 1], n[Len(n)])
            /\ \A j \in 2..(Len(n) - 1) : t[i + j - 1] = n[j]

\* RegExp.test of /\b(p)\b/ for a phrase p of whole words
ContainsPhrase(t, p) ==
    \E i \in 1..(Len(t) - Len(p) + 1) : \A j \in 1..Len(p) : t[i + j - 1] = p[j]

\* RegExp.test of /\b(p1|p2|...)\b/i on a lower-cased text
MatchAny(t, phrases) == \E p \in phrases : ContainsPhrase(t, p)

\* the phrases of an alternation: single words and multi-word phrases
Alt(words, multi) == {<<w>> : w \in words} \cup multi

\* String.prototype.length: tokens, plus one space between neighbours
\* unless the right one is glued or either is a line break
RECURSIVE StrLen(_)
StrLen(t) ==
    IF t = <<>> THEN 0
    ELSE IF Len(t) = 1 THEN WordLen(t[1])
    ELSE WordLen(t[1])
         + (IF t[2] \in Glued \/ t[2] = NL \/ t[1] = NL THEN 0 ELSE 1)
         + StrLen(Tail(t))


(***************************************************************************)
(* The fixed texts of server.js                                            *)
(***************************************************************************)

\* server.js:868
HostileText == <<
    "Agent", "K", "is", "focused", "on", "explaining", "Kyle's", "work", "clearly", ".",
    "Kyle's", "background", "includes", "autonomous", "systems", "validation", ",",
    "structured", "testing", ",", "operations", ",", "SaaS", "workflows", ",", "customer",
    "success", ",", "and", "applied", "AI", "tools", ".", "If", "you", "share", "what", "you",
    "want", "to", "understand", "about", "his", "experience", ",", "the", "answer", "can",
    "be", "specific", "and", "useful", "." >>

\* server.js:879
EmotionalText == <<
    "It", "is", "understandable", "for", "this", "to", "feel", "unclear", ".", "Kyle's",
    "work", "spans", "autonomous", "systems", ",", "testing", ",", "operations", ",", "SaaS",
    "workflows", ",", "and", "AI", "tools", ".", "If", "you", "indicate", "whether", "you",
    "are", "interested", "in", "his", "technical", "depth", ",", "his", "program",
    "management", "approach", ",", "his", "customer-facing", "work", ",", "or", "his",
    "tooling", "and", "automation", ",", "Agent", "K", "can", "walk", "through", "it", "step",
    "by", "step", "." >>

\* server.js:888
AboutKyleText == <<
    "Kyle", "has", "experience", "in", "autonomous", "systems", "validation", ",", "field",
    "operations", ",", "perception", "testing", ",", "structured", "test", "execution", ",",
    "and", "large", "scale", "training", "data", "programs", ".", "He", "has", "collaborated",
    "across", "engineering", ",", "operations", ",", "and", "product", "teams", "to",
    "deliver", "predictable", "program", "outcomes", ".", "He", "also", "has", "experience",
    "in", "SaaS", "customer", "success", ",", "technical", "onboarding", ",", "enterprise",
    "client", "workflows", ",", "and", "the", "development", "of", "applied", "AI", "tools", "." >>

\* server.js:899
FullInfoText == <<
    "Kyle's", "background", "spans", "autonomous", "systems", "validation", "and", "field",
    "operations", ",", "perception", "and", "scenario", "testing", ",", "structured", "test",
    "plans", ",", "and", "data", "focused", "programs", ".", "He", "has", "helped", "align",
    "engineering", "and", "operations", "teams", ",", "improved", "testing", "workflows", ",",
    "and", "contributed", "to", "training", "data", "quality", ".", "He", "has", "also",
    "worked", "in", "SaaS", "customer", "success", "and", "onboarding", ",", "managing",
    "enterprise", "client", "workflows", ",", "and", "he", "has", "built", "applied", "AI",
    "tools", "using", "Node.js", ",", "Express", ",", "and", "external", "APIs", ".", "Follow",
    "up", "questions", "can", "go", "deeper", "into", "any", "of", "these", "areas", "." >>

\* server.js:922
PayText == <<
    "Kyle's", "compensation", "expectations", "depend", "on", "the", "scope", "and",
    "seniority", "of", "the", "role", ",", "the", "technical", "depth", ",", "and", "market",
    "norms", ".", "For", "technical", "program", ",", "operations", ",", "or", "project",
    "manager", "roles", "in", "advanced", "technology", "environments", ",", "he", "aligns",
    "with", "market", "ranges", "and", "prioritizes", "strong", "fit", ",", "meaningful",
    "impact", ",", "and", "long", "term", "growth", "." >>

\* server.js:933
WhatKnowText == <<
    "Available", "information", "covers", "Kyle's", "work", "in", "autonomous", "systems", ",",
    "structured", "testing", "and", "validation", ",", "operations", ",", "SaaS", "workflows",
    "and", "customer", "success", ",", "and", "applied", "AI", "tools", ".", "If", "you",
    "indicate", "which", "of", "these", "areas", "is", "most", "relevant", ",", "Agent", "K",
    "can", "provide", "a", "focused", "overview", "." >>

\* server.js:944
WinsText == <<
    "Some", "of", "Kyle's", "key", "wins", "include", "leading", "structured", "testing",
    "programs", "that", "improved", "consistency", "and", "reliability", ",", "aligning",
    "engineering", "and", "operations", "teams", "around", "clear", "execution", "frameworks",
    ",", "improving", "scenario", "and", "label", "quality", "for", "training", "data", ",",
    "and", "building", "applied", "AI", "tools", "that", "reduced", "manual", "effort", "for",
    "teams", ".", "Follow", "up", "questions", "can", "target", "specific", "environments",
    "or", "roles", "." >>

\* server.js:955
SopText == <<
    "Kyle", "has", "created", "structured", "SOPs", "that", "define", "steps", ",", "signals",
    ",", "required", "conditions", ",", "and", "acceptance", "criteria", ".", "These",
    "documents", "reduced", "execution", "variance", ",", "improved", "repeatability", ",",
    "and", "helped", "cross", "functional", "teams", "align", "on", "how", "testing", "and",
    "operational", "work", "should", "be", "performed", "." >>

\* server.js:966
WeaknessText == <<
    "Kyle's", "development", "areas", "are", "framed", "in", "professional", "terms", ".",
    "He", "sometimes", "leans", "into", "structure", "because", "he", "values", "predictable",
    "execution", ",", "and", "he", "has", "learned", "to", "adjust", "that", "based", "on",
    "context", "so", "that", "he", "does", "not", "over", "design", ".", "He", "also", "sets",
    "a", "high", "bar", "for", "himself", "and", "has", "improved", "by", "prioritizing",
    "impact", "and", "involving", "stakeholders", "earlier", ".", "These", "adjustments",
    "have", "strengthened", "his", "overall", "effectiveness", "." >>

\* server.js:977
ChallengeText == <<
    "Agent", "K", "is", "designed", "to", "give", "clear", ",", "factual", "answers", "about",
    "Kyle's", "work", ".", "If", "you", "share", "whether", "you", "care", "most", "about",
    "his", "autonomous", "systems", "experience", ",", "his", "program", "execution", ",",
    "his", "customer", "facing", "work", ",", "or", "his", "AI", "tools", ",", "the",
    "explanation", "can", "be", "specific", "to", "that", "area", "." >>

\* server.js:1003
ClarifyText == <<
    "The", "question", "is", "not", "fully", "clear", ".", "If", "you", "specify", "what",
    "you", "want", "to", "understand", "--", "Kyle's", "experience", ",", "a", "technical",
    "concept", "like", "RL", "or", "control", ",", "or", "a", "specific", "project", "--",
    "Agent", "K", "can", "give", "a", "direct", "answer", "." >>

\* server.js:1017
WhichThreadText == <<
    "More", "detail", "can", "be", "provided", "on", "Kyle's", "autonomous", "systems", "work",
    ",", "his", "structured", "test", "programs", ",", "his", "SaaS", "and", "customer",
    "success", "background", ",", "his", "AI", "tools", ",", "or", "broader", "technical",
    "concepts", "like", "RL", ",", "planning", ",", "or", "control", ".", "Indicating",
    "which", "thread", "to", "continue", "will", "make", "the", "answer", "more", "useful", "." >>

\* server.js:486-508
funResponses ==
    [joke |->
       <<
         "Agent", "K", "can", "share", "a", "quick", "joke", "if", "asked", ",", "but", "the",
         "primary", "focus", "is", "explaining", "Kyle's", "work", "and", "experience", "." >>,
     greeting |->
       <<
         "Hello", ".", "Agent", "K", "can", "walk", "through", "Kyle's", "background", "across",
         "autonomous", "systems", ",", "validation", ",", "structured", "testing", ",", "program",
         "execution", ",", "SaaS", "workflows", ",", "and", "applied", "AI", "tools", ".", "What",
         "would", "you", "like", "to", "explore", "?" >>,
     thanks |->
       <<
         "You", "are", "welcome", ".", "If", "there", "is", "more", "you", "would", "like", "to",
         "know", "about", "Kyle's", "work", ",", "you", "can", "ask", "about", "specific",
         "domains", "or", "projects", "." >>,
     weather |->
       <<
         "Agent", "K", "does", "not", "track", "live", "weather", ",", "but", "can", "explain",
         "how", "Kyle", "tested", "autonomous", "systems", "across", "rain", ",", "fog", ",",
         "night", "driving", ",", "and", "other", "conditions", "." >>,
     howAreYou |->
       <<
         "Agent", "K", "is", "available", "to", "walk", "through", "Kyle's", "experience", ".",
         "What", "would", "you", "like", "to", "focus", "on", "?" >>,
     cooking |->
       <<
         "Agent", "K", "does", "not", "handle", "recipes", ",", "but", "can", "describe", "how",
         "Kyle", "structures", "workflows", ",", "testing", ",", "and", "operations", "." >>,
     meaning |->
       <<
         "That", "is", "broad", ".", "Within", "his", "work", ",", "Kyle", "tends", "to", "focus",
         "on", "practical", "impact", ",", "reliability", ",", "and", "clear", "operational",
         "execution", "." >> ]

\* server.js:847
JokeDefaultText == <<
    "Here", "is", "a", "light", "one", ":", "Why", "did", "the", "computer", "go", "to",
    "therapy", "?", "It", "had", "too", "many", "unresolved", "issues", "." >>

\* server.js:853
JokeTroubleText == <<
    "Agent", "K", "had", "trouble", "fetching", "a", "joke", ".", "You", "can", "still", "ask",
    "about", "Kyle's", "work", ",", "experience", ",", "or", "background", "." >>

\* server.js:1301
FallbackTechnicalText == <<
    "Agent", "K", "did", "not", "receive", "a", "clear", "response", "from", "the", "model",
    ".", "Can", "you", "try", "rephrasing", "the", "technical", "question", "?" >>

\* server.js:1302
FallbackKyleText == <<
    "Agent", "K", "did", "not", "receive", "a", "clear", "response", "from", "the", "model",
    ".", "Can", "you", "try", "rephrasing", "the", "question", "?" >>

\* server.js:1335
GenericErrorText == <<
    "Agent", "K", "did", "not", "receive", "a", "clear", "response", "from", "the", "model",
    ".", "Can", "you", "try", "rephrasing", "the", "question", "?" >>

\* server.js:911
CapabilityHead == <<
    "Based", "on", "available", "information", ",", "Kyle", "has", "shown", "that", "he",
    "can", "take", "on", "complex", "programs", "in" >>

CapabilityTail == <<
    ".", "He", "has", "worked", "in", "ambiguous", "environments", ",", "learned",
    "unfamiliar", "systems", "quickly", ",", "aligned", "multiple", "teams", ",", "and",
    "driven", "execution", "to", "clear", "outcomes", ".", "He", "tends", "to", "combine",
    "structured", "planning", "with", "practical", "iteration", "so", "that", "work", "stays",
    "grounded", "in", "real", "constraints", "while", "still", "moving", "forward", "." >>

(***************************************************************************)
(* Response post-processing (server.js, UTILITIES)                         *)
(***************************************************************************)

\* first index of t holding a token of S, or 0
FirstIn(t, S) ==
    IF \E i \in DOMAIN t : t[i] \in S
    THEN CHOOSE i \in DOMAIN t : t[i] \in S /\ \A j \in 1..(i - 1) : t[j] \notin S
    ELSE 0

\* first index at which the lower-cased text holds the phrase p, or 0
FirstPhrase(t, p) ==
    LET lower == Lower(t)
        hits == {i \in 1..(Len(t) - Len(p) + 1) : \A j \in 1..Len(p) : lower[i + j - 1] = p[j]}
    IN  IF hits = {} THEN 0 ELSE CHOOSE i \in hits : \A k \in hits : i <= k

\* String.prototype.split('\n')
RECURSIVE SplitLines(_)
SplitLines(t) ==
    LET i == FirstIn(t, {NL})
    IN  IF i = 0 THEN <<t>>
        ELSE <<SubSeq(t, 1, i - 1)>> \o SplitLines(SubSeq(t, i + 1, Len(t)))

\* Array.prototype.join('\n')
RECURSIVE JoinLines(_)
JoinLines(ls) ==
    IF Len(ls) = 1 THEN ls[1] ELSE ls[1] \o <<NL>> \o JoinLines(Tail(ls))

\* String.prototype.trim on a text whose only whitespace tokens are line breaks
RECURSIVE TrimText(_)
TrimText(t) ==
    IF t = <<>> THEN t
    ELSE IF t[1] = NL THEN TrimText(Tail(t))
    ELSE IF t[Len(t)] = NL THEN TrimText(SubSeq(t, 1, Len(t) - 1))
    ELSE t

\* /\n{3,}/g -> '\n\n' : the third and later breaks of a run are dropped
CollapseBreaks(t) ==
    LET marked == [i \in DOMAIN t |->
                     [tok |-> t[i],
                      keep |-> ~(t[i] = NL /\ i >= 3 /\ t[i - 1] = NL /\ t[i - 2] = NL)]]
        kept == SelectSeq(marked, LAMBDA m : m.keep)
    IN  [i \in DOMAIN kept |-> kept[i].tok]

\* the pieces (of at most two tokens each) joined into one text
Flatten(ps) ==
    LET slots == [k \in 1..(2 * Len(ps)) |->
                    LET p == ps[(k + 1) \div 2]
                        j == 2 - (k % 2)
                    IN  IF j <= Len(p) THEN <<p[j]>> ELSE <<>>]
        filled == SelectSeq(slots, LAMBDA x : x # <<>>)
    IN  [i \in DOMAIN filled |-> filled[i][1]]

\* index of the nearest token before i, or after i, that is not a line break; 0 if none
PrevText(t, i) ==
    LET ks == {k \in 1..(i - 1) : t[k] # NL}
    IN  IF ks = {} THEN 0 ELSE CHOOSE k \in ks : \A j \in ks : j <= k

NextText(t, i) ==
    LET ks == {k \in (i + 1)..Len(t) : t[k] # NL}
    IN  IF ks = {} THEN 0 ELSE CHOOSE k \in ks : \A j \in ks : k <= j

\* the line breaks at the head of t removed
RECURSIVE DropBreaks(_)
DropBreaks(t) == IF t # <<>> /\ t[1] = NL THEN DropBreaks(Tail(t)) ELSE t

\* the first character of the token is in A-Z
StartsUpper(w) == w # "" /\ Head(w) \in UpperLetters

BulletTokens == {"*"}

NumberTokens == {"1", "2", "3", "4"}

\* a list marker starts at i: a bullet (w = 1) or a number and its dot (w = 2)
MarkerAt(t, i, w) ==
    IF w = 1 THEN t[i] \in BulletTokens
    ELSE t[i] \in NumberTokens /\ i < Len(t) /\ t[i + 1] = "."

\* the markers of the unbroken run of markers that ends with the marker at i
MarkerRun(t, i, w) ==
    {j \in 1..i : /\ MarkerAt(t, j, w)
                  /\ \A k \in j..i : \/ MarkerAt(t, k, w)
                                     \/ t[k] = NL
                                     \/ (w = 2 /\ k > 1 /\ MarkerAt(t, k - 1, w))}

\* the global replace matches the marker at i: whitespace follows it, and the
\* character (\S) before it was not consumed by the match of the marker before
MarkerBreaks(t, i, w) ==
    /\ i >= 1
    /\ i <= Len(t)
    /\ MarkerAt(t, i, w)
    /\ i + w <= Len(t)
    /\ t[i + w] \notin Glued
    /\ LET run == MarkerRun(t, i, w)
           first == CHOOSE j \in run : \A k \in run : j <= k
           textBefore == PrevText(t, first) # 0
       IN  (Cardinality(run) % 2 = 1) <=> textBefore

\* the marker that matched starts a line; the breaks around it are consumed
BreakMarkers(t, w) ==
    Flatten([i \in DOMAIN t |->
        IF MarkerBreaks(t, i, w) THEN <<NL, t[i]>>
        ELSE IF /\ t[i] = NL
                /\ \/ MarkerBreaks(t, NextText(t, i), w)
                   \/ MarkerBreaks(t, PrevText(t, i) - w + 1, w)
        THEN <<>>
        ELSE <<t[i]>>])

\* /(\S)\s*[\*]\s+/g -> '$1\n* ' : a bullet that follows some text starts a line
BreakBullets(t) == BreakMarkers(t, 1)

\* /(\S)\s*(\d+)\.\s+/g -> '$1\n$2. ' : a list number that follows some text starts a line
BreakNumbers(t) == BreakMarkers(t, 2)

\* /([.?!])\s+(?=[A-Z])/g -> '$1\n' : a capitalised sentence starts a line
BreakSentences(t) ==
    LET upperNext(i) == NextText(t, i) # 0 /\ StartsUpper(t[NextText(t, i)])
    IN  Flatten([i \in DOMAIN t |->
            IF t[i] \in SentenceEnd /\ upperNext(i) THEN <<t[i], NL>>
            ELSE IF /\ t[i] = NL
                    /\ PrevText(t, i) # 0
                    /\ t[PrevText(t, i)] \in SentenceEnd
                    /\ upperNext(i)
            THEN <<>>
            ELSE <<t[i]>>])

formatParagraphs(text) ==
    IF text = <<>> THEN text
    ELSE TrimText(CollapseBreaks(BreakSentences(BreakNumbers(BreakBullets(text)))))

\* what the replacements of one line leave of its i-th token, strongest first
firstPersonPiece(line, i) ==
    LET w == LowerWord(line[i])
    IN  IF w = "i'm" THEN <<"Kyle", "is">>
        ELSE IF w = "i" /\ i < Len(line) /\ LowerWord(line[i + 1]) = "am"
             THEN <<"Kyle", "is">>
        ELSE IF w = "am" /\ i > 1 /\ LowerWord(line[i - 1]) = "i" THEN <<>>
        ELSE IF w = "i'd" THEN <<"Kyle", "would">>
        ELSE IF w = "i'll" THEN <<"Kyle", "will">>
        ELSE IF w = "i've" THEN <<"Kyle", "has">>
        ELSE IF w = "my" THEN <<"Kyle's">>
        ELSE IF w = "me" THEN <<"Kyle">>
        ELSE IF line[i] = "I" THEN <<"Kyle">>
        ELSE IF w = "myself" THEN <<"himself">>
        ELSE <<line[i]>>

RewriteFirstPerson(line) == Flatten([i \in DOMAIN line |-> firstPersonPiece(line, i)])

enforceThirdPersonForKyle(raw) ==
    IF raw = <<>> THEN raw
    ELSE LET lines == SplitLines(raw)
             processed == [i \in DOMAIN lines |->
                             IF ContainsPhrase(Lower(lines[i]), <<"agent", "k">>)
                             THEN lines[i]
                             ELSE RewriteFirstPerson(lines[i])]
         IN  JoinLines(processed)

\* /p[^.?!]*[.?!]/gi -> '' : every stretch from the phrase p to the end of its sentence
RECURSIVE StripToSentenceEnd(_, _)
StripToSentenceEnd(t, p) ==
    LET i == FirstPhrase(t, p)
        after == IF i = 0 THEN <<>> ELSE SubSeq(t, i + Len(p), Len(t))
        e == FirstIn(after, SentenceEnd)
    IN  IF i = 0 THEN t
        ELSE IF e = 0 THEN t
        ELSE SubSeq(t, 1, i - 1) \o StripToSentenceEnd(SubSeq(after, e + 1, Len(after)), p)

\* index of the last sentence end before position i, or 0
LastEndBefore(t, i) ==
    LET ends == {j \in 1..(i - 1) : t[j] \in SentenceEnd}
    IN  IF ends = {} THEN 0 ELSE CHOOSE j \in ends : \A k \in ends : k <= j

\* /[^.?!]*p[^.?!]*[.?!]/gi -> '' : every whole sentence holding the phrase p
RECURSIVE StripSentence(_, _)
StripSentence(t, p) ==
    LET i == FirstPhrase(t, p)
        after == IF i = 0 THEN <<>> ELSE SubSeq(t, i + Len(p), Len(t))
        e == FirstIn(after, SentenceEnd)
    IN  IF i = 0 THEN t
        ELSE IF e = 0 THEN t
        ELSE SubSeq(t, 1, LastEndBefore(t, i))
             \o StripSentence(SubSeq(after, e + 1, Len(after)), p)

\* /Same energy\.?\s*Your move\.?/gi -> ''
RECURSIVE StripSameEnergy(_)
StripSameEnergy(t) ==
    LET i == FirstPhrase(t, <<"same", "energy">>)
        a == IF i = 0 THEN <<>> ELSE SubSeq(t, i + 2, Len(t))
        b == IF a # <<>> /\ a[1] = "." THEN Tail(a) ELSE a
        c == DropBreaks(b)
        hit == Len(c) >= 2 /\ LowerWord(c[1]) = "your" /\ LowerWord(c[2]) = "move"
        d == IF hit THEN SubSeq(c, 3, Len(c)) ELSE <<>>
    IN  IF i = 0 THEN t
        ELSE IF hit
             THEN SubSeq(t, 1, i - 1)
                  \o StripSameEnergy(IF d # <<>> /\ d[1] = "." THEN Tail(d) ELSE d)
        ELSE SubSeq(t, 1, i + 1) \o StripSameEnergy(a)

\* server.js:118
AgentKCanonicalText == <<
    "Agent", "K", "is", "an", "AI", "assistant", "that", "represents", "Kyle's",
    "professional", "experience", "." >>

\* /\bHe is Agent K[^.?!]*[.?!]?/gi -> the canonical sentence
RECURSIVE FixHeIsAgentK(_)
FixHeIsAgentK(t) ==
    LET p == <<"he", "is", "agent", "k">>
        i == FirstPhrase(t, p)
        after == IF i = 0 THEN <<>> ELSE SubSeq(t, i + Len(p), Len(t))
        e == FirstIn(after, SentenceEnd)
    IN  IF i = 0 THEN t
        ELSE SubSeq(t, 1, i - 1) \o AgentKCanonicalText
             \o (IF e = 0 THEN <<>> ELSE FixHeIsAgentK(SubSeq(after, e + 1, Len(after))))

\* the replacements of sanitizePhrases, in the source's order: each stage works
\* on the text the stage before it produced
sanitizePhrases(text) ==
    IF text = <<>> THEN text
    ELSE Only({TrimText(FixHeIsAgentK(CollapseBreaks(s5))) :
               s5 \in {StripSentence(s4, <<"here's", "a", "light", "one">>) :
               s4 \in {StripToSentenceEnd(s3, <<"try", "asking", "something", "about", "kyle">>) :
               s3 \in {StripToSentenceEnd(s2, <<"kyle", "is", "here">>) :
               s2 \in {StripToSentenceEnd(s1, <<"i'm", "here">>) :
               s1 \in {StripSameEnergy(text)}}}}}})

sanitizeOutput(text) == formatParagraphs(sanitizePhrases(enforceThirdPersonForKyle(text)))

(***************************************************************************)
(* Query normalisation and the rule-based detectors                        *)
(***************************************************************************)

\* the table of misspellings, in the order the loop applies it
replacements == <<
    <<"autonmous", "autonomous">>, <<"autonnomous", "autonomous">>,
    <<"autonamous", "autonomous">>, <<"autonmoy", "autonomy">>, <<"autopliot", "autopilot">>,
    <<"valdiation", "validation">>, <<"validaton", "validation">>,
    <<"validaiton", "validation">>, <<"vlaidation", "validation">>,
    <<"strenghening", "strengthening">>, <<"strenghtening", "strengthening">>,
    <<"strenthening", "strengthening">>, <<"scrpting", "scripting">>,
    <<"scriptting", "scripting">>, <<"skritping", "scripting">>, <<"skripting", "scripting">>,
    <<"progarm", "program">>, <<"proram", "program">>, <<"programm", "program">>,
    <<"pogram", "program">>, <<"mangament", "management">>, <<"mangement", "management">>,
    <<"managment", "management">>, <<"operatons", "operations">>,
    <<"perseption", "perception">>, <<"percpetion", "perception">>,
    <<"perceptionn", "perception">>, <<"custmer", "customer">>, <<"cusotmer", "customer">>,
    <<"sucess", "success">>, <<"succes", "success">>, <<"expereince", "experience">>,
    <<"experiance", "experience">>, <<"experinece", "experience">>, <<"dataa", "data">> >>

\* the loop from entry k of the table on, for one word: the first entry
\* whose pattern matches replaces the word, and the loop goes on behind it
RECURSIVE replaceFrom(_, _, _)
replaceFrom(word, table, k) ==
    LET lower == LowerWord(word)
        hits == {j \in k..Len(table) : table[j][1] = lower}
    IN  IF hits = {} THEN word
        ELSE LET first == CHOOSE j \in hits : \A h \in hits : j <= h
             IN  replaceFrom(table[first][2], table, first + 1)

\* the loop over the table
replaceAll(text, table) == [i \in DOMAIN text |-> replaceFrom(text[i], table, 1)]

\* a variant of normalizeQuery: the table ends in an entry whose replacement
\* is a misspelling of an earlier entry
normalizeQueryChained(text) ==
    IF text = <<>> THEN text
    ELSE replaceAll(text, Append(replacements, <<"datta", "dataa">>))

normalizeQuery(text) ==
    IF text = <<>> THEN text
    ELSE replaceAll(text, replacements)

\* the token is made of letters only
IsAlphaWord(w) == w \notin Glued /\ w # NL /\ w \notin {"*", "--"} /\ w \notin {"1", "2", "3", "4"}

\* Array.prototype.slice(0, n)
Take(s, n) == SubSeq(s, 1, IF Len(s) < n THEN Len(s) ELSE n)

\* text.toLowerCase().match(/\b[a-z]{3,}\b/g).slice(0, 10)
extractKeywords(text) ==
    Take(SelectSeq(Lower(text), LAMBDA w : IsAlphaWord(w) /\ WordLen(w) >= 3), 10)

IncludesAny(t, words) == \E w \in words : Includes(t, <<w>>)

IncludesAnyPhrase(t, phrases) == \E p \in phrases : Includes(t, p)

classifyTopic(lower) ==
    IF IncludesAny(lower, {"autonomous", "autopilot", "perception", "sensor"})
    THEN <<"autonomous", "systems", "and", "perception", "testing">>
    ELSE IF IncludesAny(lower, {"program", "project", "execution", "roadmap"})
    THEN <<"program", "and", "project", "execution">>
    ELSE IF IncludesAny(lower, {"customer", "client", "success", "account", "rider"})
    THEN <<"customer", "and", "rider", "experience">>
    ELSE IF IncludesAny(lower, {"data", "label", "annotation"})
            \/ Includes(lower, <<"training", "data">>)
    THEN <<"large", "scale", "training", "data", "and", "data", "quality", "programs">>
    ELSE IF IncludesAny(lower, {"ai", "agent", "script", "node", "express"})
    THEN <<"applied", "AI", "tools", "and", "scripting">>
    ELSE <<"his", "work", "in", "autonomous", "systems", ",", "validation", ",", "program",
           "management", ",", "SaaS", "workflows", ",", "and", "applied", "AI", "tools">>

isBehavioralOrPMCXQuestion(lower) ==
    IncludesAnyPhrase(lower, {
        <<"tell", "me", "about", "a", "time">>, <<"describe", "a", "time">>,
        <<"give", "an", "example">>, <<"give", "me", "an", "example">>,
        <<"walk", "me", "through">>, <<"how", "would", "you", "handle">>,
        <<"how", "would", "you", "deal", "with">>, <<"how", "do", "you", "handle">>,
        <<"how", "do", "you", "deal", "with">>, <<"walk", "me", "through", "how", "you">>,
        <<"time", "you">>, <<"time", "when">>, <<"situation", "where">>,
        <<"what", "would", "you", "do", "if">>, <<"how", "would", "you", "investigate">>,
        <<"design", "an", "escalation">>, <<"design", "a", "process">>,
        <<"how", "would", "you", "prioritize">> })

detectSTARQuery(query) ==
    IncludesAnyPhrase(Lower(query), {
        <<"tell", "me", "about", "a", "time">>, <<"describe", "a", "time">>,
        <<"give", "me", "an", "example">>, <<"star", "example">>, <<"challenge">>,
        <<"overcame">>, <<"difficult", "situation">>, <<"accomplishment">>,
        <<"achievement">>, <<"led", "a", "project">>, <<"managed", "a", "project">>,
        <<"handled">>, <<"resolved">>, <<"improved">>, <<"time", "you">>,
        <<"time", "when">>, <<"time", "kyle">>, <<"situation", "where">>,
        <<"walk", "me", "through">>, <<"walk", "me", "thru">>, <<"walk", "through">>,
        <<"walk", "thru">>, <<"walk", "me", "step", "by", "step">> })

\* the number of question marks in the text
RECURSIVE QuestionMarks(_)
QuestionMarks(t) ==
    IF t = <<>> THEN 0
    ELSE (CASE t[1] = "?" -> 1 [] t[1] = "??" -> 2 [] t[1] = "???" -> 3 [] OTHER -> 0)
         + QuestionMarks(Tail(t))

\* /a.*b.*c/ : the words occur in this order (as substrings)
InOrder3(t, a, b, c) ==
    \E i, j, k \in DOMAIN t :
        i < j /\ j < k /\ SubWord(a, t[i]) /\ SubWord(b, t[j]) /\ SubWord(c, t[k])

\* /\bw\b.*\?/ : the whole word w with a question mark after it
WordThenQuestion(t, w) ==
    \E i, j \in DOMAIN t : i < j /\ t[i] = w /\ t[j] \in {"?", "??", "???"}

detectMultiPartQuery(query) ==
    LET t == Lower(query)
    IN  \/ WordThenQuestion(t, "and")
        \/ WordThenQuestion(t, "or")
        \/ QuestionMarks(query) >= 2
        \/ MatchAny(t, {<<"also">>, <<"plus">>, <<"additionally">>})
        \/ InOrder3(t, "what", "and", "how")
        \/ InOrder3(t, "why", "and", "how")
        \/ InOrder3(t, "how", "and", "what")

classifyUserRole(lower) ==
    IF IncludesAny(lower, {"hire", "hiring", "interview"}) THEN "hiring_manager"
    ELSE IF IncludesAny(lower, {"recruiter", "recruit", "screen"}) THEN "recruiter"
    ELSE IF IncludesAny(lower, {"engineer", "technical"}) \/ Includes(lower, <<"deep", "dive">>)
    THEN "engineer"
    ELSE IF IncludesAny(lower, {"product", "program", "roadmap"}) THEN "pm"
    ELSE "general"

NoOffTopic == [type |-> "none", response |-> <<>>]

detectOffTopicQuery(query) ==
    LET q == Lower(query)
    IN  IF IncludesAnyPhrase(q, {<<"tell", "me", "a", "joke">>, <<"joke", "about">>})
        THEN [type |-> "joke", response |-> funResponses.joke]
        ELSE IF /\ q # <<>>
                /\ \/ q[1] \in {"hi", "hey", "hello", "sup", "yo", "howdy"}
                   \/ Len(q) >= 2 /\ q[1] \in {"what's", "whats"} /\ q[2] = "up"
        THEN [type |-> "greeting", response |-> funResponses.greeting]
        ELSE IF Includes(q, <<"thank">>)
        THEN [type |-> "thanks", response |-> funResponses.thanks]
        ELSE IF IncludesAnyPhrase(q, {<<"how", "are", "you">>, <<"how're", "you">>,
                                      <<"howre", "you">>, <<"how", "r", "u">>})
        THEN [type |-> "howAreYou", response |-> funResponses.howAreYou]
        ELSE IF IncludesAny(q, {"cook", "recipe", "food"})
        THEN [type |-> "cooking", response |-> funResponses.cooking]
        ELSE IF IncludesAnyPhrase(q, {<<"meaning", "of", "life">>, <<"purpose", "of", "life">>})
        THEN [type |-> "meaning", response |-> funResponses.meaning]
        ELSE IF /\ MatchAny(q, Alt({"weather", "temperature", "rain", "snow", "hot", "cold",
                                    "forecast"}, {}))
                /\ ~MatchAny(q, Alt({"test", "testing", "scenario"}, {<<"weather", "tests">>}))
        THEN [type |-> "weather", response |-> funResponses.weather]
        ELSE NoOffTopic

(***************************************************************************)
(* Retrieval: lexical scoring, cosine similarity, score fusion             *)
(* Scores are exact rationals [n, d] with d > 0; knowledge-base indices    *)
(* are the source's indices plus one.                                      *)
(***************************************************************************)

Rat(n, d) == [n |-> n, d |-> d]

RECURSIVE GCD(_, _)
GCD(a, b) == IF b = 0 THEN a ELSE GCD(b, a % b)

\* the same number in lowest terms
Reduce(r) ==
    LET g == GCD(IF r.n < 0 THEN -r.n ELSE r.n, r.d)
    IN  IF r.n = 0 THEN Rat(0, 1) ELSE Rat(r.n \div g, r.d \div g)

RatLess(a, b) == a.n * b.d < b.n * a.d

RatLeq(a, b) == a.n * b.d <= b.n * a.d

\* Math.sqrt, on the perfect squares the model's vectors produce
Sqrt(n) == CHOOSE r \in 0..n : r * r = n

RECURSIVE SumSeq(_)
SumSeq(s) == IF s = <<>> THEN 0 ELSE s[1] + SumSeq(Tail(s))

NoVector == <<>>

cosineSimilarity(a, b) ==
    IF a = NoVector \/ b = NoVector \/ Len(a) # Len(b) THEN Rat(0, 1)
    ELSE LET dot == SumSeq([i \in DOMAIN a |-> a[i] * b[i]])
             normA == SumSeq([i \in DOMAIN a |-> a[i] * a[i]])
             normB == SumSeq([i \in DOMAIN b |-> b[i] * b[i]])
         IN  IF normA = 0 \/ normB = 0 THEN Rat(0, 1)
             ELSE Rat(dot, Sqrt(normA) * Sqrt(normB))

\* q.split(/\s+/) : the whitespace-separated chunks, each a word with the
\* punctuation glued to it
RECURSIVE Chunks(_)
Chunks(t) ==
    IF t = <<>> THEN <<>>
    ELSE LET rest == Tail(t)
             n == IF \E i \in DOMAIN rest : rest[i] \notin Glued
                  THEN (CHOOSE i \in DOMAIN rest :
                            rest[i] \notin Glued /\ \A j \in 1..(i - 1) : rest[j] \in Glued) - 1
                  ELSE Len(rest)
         IN  <<SubSeq(t, 1, n + 1)>> \o Chunks(SubSeq(t, n + 2, Len(t)))

\* the first r characters of the word w
CutWord(w, r) == IF r >= WordLen(w) THEN w ELSE SubSeq(w, 1, r)

QuestionPrefixLen == 20

\* String.prototype.substring(0, 20): whole tokens, then a cut word; space is
\* TRUE when the last of the 20 characters is the space after the tokens
Prefix20(t) ==
    LET fits == {k \in 0..Len(t) : StrLen(SubSeq(t, 1, k)) <= QuestionPrefixLen}
        k == CHOOSE x \in fits : \A y \in fits : y <= x
        used == StrLen(SubSeq(t, 1, k))
        gap == IF k = Len(t) \/ k = 0 \/ t[k + 1] \in Glued THEN 0 ELSE 1
        r == QuestionPrefixLen - used - gap
    IN  IF k = Len(t) \/ r < 0 THEN [toks |-> SubSeq(t, 1, k), space |-> FALSE]
        ELSE IF r = 0 THEN [toks |-> SubSeq(t, 1, k), space |-> gap = 1]
        ELSE [toks |-> Append(SubSeq(t, 1, k), CutWord(t[k + 1], r)), space |-> FALSE]

\* q.includes(prefix) for a prefix cut by Prefix20
IncludesPrefix(q, p) ==
    IF ~p.space THEN Includes(q, p.toks)
    ELSE LET n == p.toks
         IN  \E i \in 1..(Len(q) - Len(n)) :
                /\ HasSuffix(q[i], n[1])
                /\ \A j \in 2..Len(n) : q[i + j - 1] = n[j]
                /\ q[i + Len(n)] \notin Glued

\* the score keywordScoreAll gives one entry for the lower-cased, trimmed query q
entryKeywordScore(q, qa) ==
    LET question == Lower(qa.question)
        answer == Lower(qa.answer)
        keywords == [i \in DOMAIN qa.keywords |-> Lower(qa.keywords[i])]
        keywordHit == \E i \in DOMAIN keywords : Includes(q, keywords[i])
        prefixHit == /\ StrLen(qa.question) >= QuestionPrefixLen
                     /\ IncludesPrefix(q, Prefix20(question))
        words == SelectSeq(Chunks(q), LAMBDA w : StrLen(w) > 2)
        found(w) == \/ Includes(question, w)
                    \/ Includes(answer, w)
                    \/ \E i \in DOMAIN keywords : Includes(keywords[i], w)
    IN  (IF keywordHit THEN 25 ELSE 0)
        + (IF prefixHit THEN 10 ELSE 0)
        + 3 * Len(SelectSeq(words, found))

keywordScoreAll(kb, query) ==
    LET q == Lower(query)
    IN  IF q = <<>> THEN <<>>
        ELSE [idx \in DOMAIN kb |->
                [index |-> idx, score |-> Rat(entryKeywordScore(q, kb[idx]), 1)]]

\* Array.prototype.sort((a, b) => b.score - a.score), which is stable
RECURSIVE InsertDesc(_, _)
InsertDesc(sorted, x) ==
    IF sorted = <<>> THEN <<x>>
    ELSE IF RatLess(sorted[1].score, x.score) THEN <<x>> \o sorted
    ELSE <<sorted[1]>> \o InsertDesc(Tail(sorted), x)

\* a variant of SortDesc: of two entries with the same score the later one
\* comes first
RECURSIVE InsertDescTiesFirst(_, _)
InsertDescTiesFirst(sorted, x) ==
    IF sorted = <<>> THEN <<x>>
    ELSE IF RatLeq(sorted[1].score, x.score) THEN <<x>> \o sorted
    ELSE <<sorted[1]>> \o InsertDescTiesFirst(Tail(sorted), x)

RECURSIVE SortDescUnstable(_)
SortDescUnstable(s) ==
    IF s = <<>> THEN s
    ELSE InsertDescTiesFirst(SortDescUnstable(SubSeq(s, 1, Len(s) - 1)), s[Len(s)])

RECURSIVE SortDesc(_)
SortDesc(s) ==
    IF s = <<>> THEN s ELSE InsertDesc(SortDesc(SubSeq(s, 1, Len(s) - 1)), s[Len(s)])

\* the lexical-only ranking
keywordOnly(scored, limit) ==
    Take(SortDesc(SelectSeq(scored, LAMBDA item : item.score.n > 0)), limit)

RECURSIVE MaxScore(_)
MaxScore(scored) ==
    IF scored = <<>> THEN 0
    ELSE LET m == MaxScore(Tail(scored))
         IN  IF scored[1].score.n > m THEN scored[1].score.n ELSE m

\* embeddingScores.get(idx) || 0 : the similarity of the last record kept for
\* the index, of those with similarity above 0
embeddingScore(emb, queryEmbedding, idx) ==
    LET hits == {i \in DOMAIN emb :
                    /\ emb[i].index = idx
                    /\ cosineSimilarity(queryEmbedding, emb[i].embedding).n > 0}
    IN  IF hits = {} THEN Rat(0, 1)
        ELSE cosineSimilarity(queryEmbedding,
                              emb[CHOOSE i \in hits : \A j \in hits : j <= i].embedding)

\* 0.35 * kwNorm + 0.65 * embSim
combinedScore(kwScore, maxKeywordScore, embSim) ==
    IF maxKeywordScore > 0
    THEN Reduce(Rat(35 * kwScore * embSim.d + 65 * embSim.n * maxKeywordScore,
                    100 * maxKeywordScore * embSim.d))
    ELSE Reduce(Rat(65 * embSim.n, 100 * embSim.d))

\* what the embedding service did for the query: it was not called, it failed
\* (threw, or returned no vector), or it returned a vector
NotCalled == [kind |-> "not called", vector |-> NoVector]

Failed == [kind |-> "failed", vector |-> NoVector]

Returned(v) == [kind |-> "vector", vector |-> v]

\* a variant of searchCallsEmbedding: the service is tried on every search
searchCallsEmbeddingAlways(kb, emb, enabled, query) ==
    /\ Lower(query) # <<>>
    /\ kb # <<>>

\* whether hybridSearchKnowledgeBase calls the embedding service for this query
searchCallsEmbedding(kb, emb, enabled, query) ==
    /\ Lower(query) # <<>>
    /\ kb # <<>>
    /\ enabled
    /\ emb # <<>>

\* the fused ranking, once the query's vector is known
fusedRanking(kb, emb, q, limit, queryEmbedding) ==
    LET keywordScoredFull == keywordScoreAll(kb, q)
        maxKeywordScore == MaxScore(keywordScoredFull)
        combined == [idx \in DOMAIN kb |->
                        [index |-> idx,
                         score |-> combinedScore(keywordScoredFull[idx].score.n,
                                                 maxKeywordScore,
                                                 embeddingScore(emb, queryEmbedding, idx))]]
    IN  Take(SortDesc(SelectSeq(combined, LAMBDA item : item.score.n > 0)), limit)

\* a variant of hybridSearchKnowledgeBase: a failed embedding call empties the result
hybridSearchFailEmpty(kb, emb, enabled, query, limit, reply) ==
    LET q == Lower(query)
    IN  IF q = <<>> \/ kb = <<>> THEN <<>>
        ELSE IF ~enabled \/ emb = <<>> THEN keywordOnly(keywordScoreAll(kb, q), limit)
        ELSE IF reply.kind # "vector" THEN <<>>
        ELSE fusedRanking(kb, emb, q, limit, reply.vector)

hybridSearchKnowledgeBase(kb, emb, enabled, query, limit, reply) ==
    LET q == Lower(query)
    IN  IF q = <<>> \/ kb = <<>> THEN <<>>
        ELSE IF ~enabled \/ emb = <<>> THEN keywordOnly(keywordScoreAll(kb, q), limit)
        ELSE IF reply.kind # "vector"
             THEN keywordOnly(keywordScoreAll(kb, q), limit)
        ELSE fusedRanking(kb, emb, q, limit, reply.vector)

(***************************************************************************)
(* POST /query: the synchronous decisions of the handler                   *)
(***************************************************************************)

\* the request body's q: absent, a string (pad: it has leading or trailing
\* whitespace around toks), or a value that is not a string
NoQuery == [kind |-> "missing", pad |-> FALSE, toks |-> <<>>]

StringQuery(pad, toks) == [kind |-> "string", pad |-> pad, toks |-> toks]

NumberQuery == [kind |-> "number", pad |-> FALSE, toks |-> <<>>]

\* !q
Falsy(q) == q.kind = "missing" \/ (q.kind = "string" /\ q.toks = <<>> /\ ~q.pad)

\* normalizeQuery(q.trim())
originalQueryOf(q) == normalizeQuery(q.toks)

isAboutKyle(lower) == MatchAny(lower, {<<"kyle">>})

mentionsKyle(lower) == isAboutKyle(lower) \/ MatchAny(lower, {<<"about", "kyle">>})

\* /why .*role/ and /why .*company/ : the word why, then later the word
WhyThen(t, w) == \E i, j \in DOMAIN t : i < j /\ t[i] = "why" /\ t[j] = w

isInterviewy(lower) ==
    \/ MatchAny(lower, Alt({"strengths", "weaknesses"}, {
            <<"tell", "me", "about", "yourself">>, <<"greatest", "strength">>,
            <<"greatest", "weakness">>, <<"why", "do", "you", "want", "this", "role">>,
            <<"why", "should", "we", "hire", "you">>, <<"fit", "for", "this", "role">>,
            <<"fit", "for", "the", "role">>, <<"background", "for", "this", "role">>,
            <<"walk", "me", "through", "your", "resume">> }))
    \/ WhyThen(lower, "role")
    \/ WhyThen(lower, "company")

isConceptQuestion(lower) ==
    MatchAny(lower, Alt({"what's", "define", "explain", "compare", "contrast"}, {
        <<"what", "is">>, <<"definition", "of">>, <<"how", "does">>,
        <<"how", "do", "you", "handle">>, <<"difference", "between">> }))

hasTechnicalKeywords(lower) ==
    MatchAny(lower, Alt(
        {"rl", "q-learning", "actor-critic", "bandit", "mdp", "ml", "self-supervised",
         "transformer", "cnn", "rnn", "lstm", "gan", "planning", "control", "controller",
         "mpc", "slam", "localization", "ekf", "ukf", "bayes", "bayesian", "policy",
         "trajectory", "perception", "lidar", "radar", "sim2real", "simulation", "flatness"},
        {<<"reinforcement", "learning">>, <<"policy", "gradient">>, <<"q", "learning">>,
         <<"actor", "critic">>, <<"multi-armed", "bandit">>,
         <<"markov", "decision", "process">>, <<"value", "function">>,
         <<"advantage", "function">>, <<"neural", "network">>, <<"deep", "learning">>,
         <<"machine", "learning">>, <<"supervised", "learning">>,
         <<"unsupervised", "learning">>, <<"autonomous", "driving">>, <<"av", "stack">>,
         <<"trajectory", "planning">>, <<"path", "planning">>, <<"pid", "controller">>,
         <<"pid", "loop">>, <<"model", "predictive", "control">>, <<"sensor", "fusion">>,
         <<"kalman", "filter">>, <<"reward", "function">>, <<"object", "detection">>,
         <<"lidar", "sensor">>, <<"camera", "model">>, <<"occupancy", "grid">>,
         <<"safety", "case">>, <<"iso", "26262">>, <<"differential", "flatness">>}))

\* the tokens of the model's inputs that are 2 to 6 capital letters
AllCapsWords == {"OK", "RL"}

\* /\b[A-Z]{2,6}\b/.test(q) && !mentionsKyle, on the raw q
looksLikeAcronym(q, lower) ==
    (\E i \in DOMAIN q.toks : q.toks[i] \in AllCapsWords) /\ ~mentionsKyle(lower)

intentOf(q) ==
    LET lower == Lower(originalQueryOf(q))
    IN  IF \/ hasTechnicalKeywords(lower)
           \/ looksLikeAcronym(q, lower)
           \/ (isConceptQuestion(lower) /\ ~mentionsKyle(lower))
        THEN "technical"
        ELSE IF mentionsKyle(lower) \/ isInterviewy(lower) \/ isBehavioralOrPMCXQuestion(lower)
        THEN "kyle"
        ELSE "mixed"

jokeRegex ==
    {<<"joke", "of", "the", "day">>, <<"daily", "joke">>, <<"random", "joke">>,
     <<"surprise", "me", "with", "a", "joke">>, <<"tell", "me", "a", "joke">>}

hostileRegex ==
    Alt({"suck", "stupid", "dumb", "idiot", "useless", "trash", "terrible", "awful",
         "horrible", "crap", "wtf", "shit", "fuck", "fucking", "bullshit", "bs", "garbage"},
        {<<"bad", "ai">>, <<"you", "suck">>})

emotionalRegex ==
    Alt({"frustrated", "frustrating", "confused", "confusing", "annoyed", "annoying",
         "overwhelmed", "stressed", "stressing", "lost", "stuck", "irritated"}, {})

aboutKyleRegex ==
    {<<"who", "is", "kyle">>, <<"tell", "me", "about", "kyle">>,
     <<"what", "does", "kyle", "do">>, <<"kyle", "background">>, <<"kyle", "experience">>}

fullInfoQuery ==
    {<<"tell", "me", "everything">>, <<"tell", "me", "all", "you", "know">>,
     <<"everything", "you", "know">>, <<"all", "info">>, <<"all", "information">>,
     <<"all", "you", "have", "on", "kyle">>, <<"all", "you", "know", "about", "kyle">>}

capabilityQuery ==
    {<<"can", "he">>, <<"is", "he", "able">>, <<"is", "kyle", "able">>, <<"can", "kyle">>,
     <<"could", "he">>, <<"would", "he", "be", "able">>, <<"handle", "this">>,
     <<"take", "this", "on">>, <<"perform", "this", "role">>, <<"do", "this", "role">>,
     <<"could", "he", "do", "it">>}

payQuery ==
    Alt({"salary", "pay", "compensation", "comp", "range"},
        {<<"expected", "pay">>, <<"pay", "expectations">>, <<"comp", "expectations">>,
         <<"salary", "expectations">>})

whatKnow ==
    {<<"what", "do", "you", "know">>, <<"what", "all", "do", "you", "know">>,
     <<"your", "knowledge">>, <<"what", "info", "do", "you", "have">>}

winsQuery ==
    Alt({"win", "wins", "accomplish", "accomplishment", "accomplishments", "achievement",
         "achievements", "results", "notable"}, {<<"key", "wins">>})

sopQuery ==
    Alt({"sop", "sops", "process", "processes", "workflow", "workflows", "procedure",
         "procedures"}, {<<"standard", "operating">>})

weaknessQuery ==
    Alt({"weak", "weakness", "weakest", "failure", "failures", "mistake", "mistakes",
         "shortcoming", "shortcomings"}, {})

challengeTriggers ==
    {<<"your", "move">>, <<"same", "energy">>, <<"prove", "it">>, <<"go", "on", "then">>,
     <<"what", "you", "got">>, <<"come", "on">>}

vagueLowSignalList ==
    {<<"huh">>, <<"k">>, <<"kk">>, <<"lol">>, <<"lmao">>, <<"idk">>, <<"iono">>, <<"hmmm">>,
     <<"hmm">>, <<"???">>, <<"??">>, <<"?">>, <<"uh">>, <<"umm">>}

\* vagueLowSignalList.includes(lower) || /^[\s?.!]{1,3}$/.test(lower)
isVagueLowSignal(lower) ==
    \/ lower \in vagueLowSignalList
    \/ /\ lower # <<>>
       /\ \A i \in DOMAIN lower : lower[i] \in SentenceEnd
       /\ StrLen(lower) <= 3

\* /^(y(es)?|yeah|yep|sure|ok|okay|sounds good|go ahead|mhm)\s*$/i
affirm ==
    {<<"y">>, <<"yes">>, <<"yeah">>, <<"yep">>, <<"sure">>, <<"ok">>, <<"okay">>,
     <<"sounds", "good">>, <<"go", "ahead">>, <<"mhm">>}

\* a variant of regexCascade: the weakness branch is missing
regexCascadeNoWeakness == <<
    [route |-> "joke", pattern |-> jokeRegex],
    [route |-> "hostile", pattern |-> hostileRegex],
    [route |-> "emotional", pattern |-> emotionalRegex],
    [route |-> "about_kyle", pattern |-> aboutKyleRegex],
    [route |-> "full_info", pattern |-> fullInfoQuery],
    [route |-> "capability", pattern |-> capabilityQuery],
    [route |-> "pay", pattern |-> payQuery],
    [route |-> "what_know", pattern |-> whatKnow],
    [route |-> "wins", pattern |-> winsQuery],
    [route |-> "sop", pattern |-> sopQuery],
    [route |-> "challenge", pattern |-> challengeTriggers] >>

\* a variant of regexCascade: the hostile pattern is tested after the weakness pattern
regexCascadeHostileLate == <<
    [route |-> "joke", pattern |-> jokeRegex],
    [route |-> "emotional", pattern |-> emotionalRegex],
    [route |-> "about_kyle", pattern |-> aboutKyleRegex],
    [route |-> "full_info", pattern |-> fullInfoQuery],
    [route |-> "capability", pattern |-> capabilityQuery],
    [route |-> "pay", pattern |-> payQuery],
    [route |-> "what_know", pattern |-> whatKnow],
    [route |-> "wins", pattern |-> winsQuery],
    [route |-> "sop", pattern |-> sopQuery],
    [route |-> "weakness", pattern |-> weaknessQuery],
    [route |-> "hostile", pattern |-> hostileRegex],
    [route |-> "challenge", pattern |-> challengeTriggers] >>

\* the pattern-tested branches of the handler, in the order the handler tests them
regexCascade == <<
    [route |-> "joke", pattern |-> jokeRegex],
    [route |-> "hostile", pattern |-> hostileRegex],
    [route |-> "emotional", pattern |-> emotionalRegex],
    [route |-> "about_kyle", pattern |-> aboutKyleRegex],
    [route |-> "full_info", pattern |-> fullInfoQuery],
    [route |-> "capability", pattern |-> capabilityQuery],
    [route |-> "pay", pattern |-> payQuery],
    [route |-> "what_know", pattern |-> whatKnow],
    [route |-> "wins", pattern |-> winsQuery],
    [route |-> "sop", pattern |-> sopQuery],
    [route |-> "weakness", pattern |-> weaknessQuery],
    [route |-> "challenge", pattern |-> challengeTriggers] >>

\* the branch of the handler that answers a truthy string q: the first pattern
\* of the cascade that matches, then the branches tested after the patterns;
\* "retrieve" is the fall-through to retrieval and generation
routeOf(q, lastBotMessage) ==
    LET originalQuery == originalQueryOf(q)
        lower == Lower(originalQuery)
        hits == {i \in DOMAIN regexCascade : MatchAny(lower, regexCascade[i].pattern)}
    IN  IF hits # {} THEN regexCascade[CHOOSE i \in hits : \A j \in hits : i <= j].route
        ELSE IF isVagueLowSignal(lower) THEN "low_signal"
        ELSE IF /\ lower \in affirm
                /\ lastBotMessage # <<>>
                /\ extractKeywords(lastBotMessage) = <<>>
        THEN "which_thread"
        ELSE IF /\ ~isAboutKyle(lower)
                /\ intentOf(q) # "technical"
                /\ detectOffTopicQuery(originalQuery).type # "none"
        THEN "off_topic"
        ELSE "retrieve"

\* the string literal the canned branch passes to sanitizeOutput
cannedText(route, originalQuery) ==
    CASE route = "hostile" -> HostileText
      [] route = "emotional" -> EmotionalText
      [] route = "about_kyle" -> AboutKyleText
      [] route = "full_info" -> FullInfoText
      [] route = "capability" ->
            CapabilityHead \o classifyTopic(Lower(originalQuery)) \o CapabilityTail
      [] route = "pay" -> PayText
      [] route = "what_know" -> WhatKnowText
      [] route = "wins" -> WinsText
      [] route = "sop" -> SopText
      [] route = "weakness" -> WeaknessText
      [] route = "challenge" -> ChallengeText
      [] route = "low_signal" -> ClarifyText
      [] route = "which_thread" -> WhichThreadText
      [] route = "off_topic" -> detectOffTopicQuery(originalQuery).response

\* the q the affirmative branch assigns: extracted.join(' ') + ' kyle experience'
affirmativeRewrite(lastBotMessage) ==
    extractKeywords(lastBotMessage) \o <<"kyle", "experience">>

(***************************************************************************)
(* POST /query: retrieval tiers, context and user message                  *)
(***************************************************************************)

\* a variant of STRONG_THRESHOLD: the threshold on the scale of the lexical
\* scores, where a keyword hit counts 25
StrongThresholdLexical == Rat(25, 1)

STRONG_THRESHOLD == Rat(9, 10)

WEAK_THRESHOLD == Rat(3, 10)

\* a variant of retrievalRuns: only behavioral and PM/CX questions bypass retrieval
retrievalRunsForTechnical(q) ==
    ~isBehavioralOrPMCXQuestion(Lower(originalQueryOf(q)))

\* whether the handler calls hybridSearchKnowledgeBase at all
retrievalRuns(q) ==
    ~isBehavioralOrPMCXQuestion(Lower(originalQueryOf(q))) /\ intentOf(q) # "technical"

topScoreOf(relevantQAs) ==
    IF relevantQAs # <<>> THEN relevantQAs[1].score ELSE Rat(0, 1)

\* originalQuery.split(/\s+/).filter(Boolean).length
tokenCountOf(originalQuery) == Len(Chunks(originalQuery))

isShortAmbiguous(originalQuery, relevantQAs) ==
    relevantQAs = <<>> /\ tokenCountOf(originalQuery) <= 3

\* tokenCount >= 3 && !/^[\W_]+$/.test(originalQuery)
isMeaningfulQuery(originalQuery) ==
    /\ tokenCountOf(originalQuery) >= 3
    /\ \E i \in DOMAIN originalQuery : originalQuery[i] \notin Glued \cup {"--", "*"}

fallbackWasUsed(kb, q, relevantQAs) ==
    LET weakOrNoMatch ==
            \/ isBehavioralOrPMCXQuestion(Lower(originalQueryOf(q)))
            \/ intentOf(q) = "technical"
            \/ relevantQAs = <<>>
            \/ RatLess(topScoreOf(relevantQAs), WEAK_THRESHOLD)
    IN  /\ kb # <<>>
        /\ weakOrNoMatch
        /\ isMeaningfulQuery(originalQueryOf(q))
        /\ intentOf(q) # "technical"

\* a variant of isStrongHit: a strong hit is only added to the context
isStrongHitNever(q, relevantQAs) == FALSE

\* 1) Strong direct KB hit
isStrongHit(q, relevantQAs) ==
    /\ retrievalRuns(q)
    /\ relevantQAs # <<>>
    /\ RatLeq(STRONG_THRESHOLD, topScoreOf(relevantQAs))

MaxContextEntries == 4

MaxSampleSize == 10

\* the indices of the synthesized fallback sample
sampleIndices(total) ==
    LET sampleSize == IF total < MaxSampleSize THEN total ELSE MaxSampleSize
        floorDiv == IF sampleSize = 0 THEN 0 ELSE total \div sampleSize
        step == IF floorDiv < 1 THEN 1 ELSE floorDiv
        picked == {i \in 0..(total - 1) : i % step = 0 /\ i \div step < sampleSize}
    IN  [k \in 1..Cardinality(picked) |-> (k - 1) * step + 1]

\* 2) contextText: the entries listed, and under which heading
NoContext == [kind |-> "none", entries |-> <<>>]

\* a variant of contextOf: a weak match lists the top entries, no sample is taken
contextOfTopEntries(kb, q, relevantQAs) ==
    IF ~retrievalRuns(q) THEN NoContext
    ELSE IF relevantQAs # <<>>
    THEN [kind |-> "relevant",
          entries |-> [i \in 1..(IF Len(relevantQAs) < MaxContextEntries
                                 THEN Len(relevantQAs) ELSE MaxContextEntries) |->
                          relevantQAs[i].index]]
    ELSE NoContext

contextOf(kb, q, relevantQAs) ==
    IF ~retrievalRuns(q) THEN NoContext
    ELSE IF relevantQAs # <<>> /\ RatLeq(WEAK_THRESHOLD, topScoreOf(relevantQAs))
    THEN [kind |-> "relevant",
          entries |-> [i \in 1..(IF Len(relevantQAs) < MaxContextEntries
                                 THEN Len(relevantQAs) ELSE MaxContextEntries) |->
                          relevantQAs[i].index]]
    ELSE IF fallbackWasUsed(kb, q, relevantQAs)
    THEN [kind |-> "sample", entries |-> sampleIndices(Len(kb))]
    ELSE NoContext

\* a variant of userMessageShape: the STAR templates are missing
userMessageShapeNoStar(kb, q, relevantQAs) ==
    LET originalQuery == originalQueryOf(q)
        isMulti == detectMultiPartQuery(originalQuery)
    IN  IF intentOf(q) = "technical"
        THEN IF isMulti THEN "technical multi-part"
             ELSE IF isConceptQuestion(Lower(originalQuery)) THEN "technical concept"
             ELSE "plain"
        ELSE IF isShortAmbiguous(originalQuery, relevantQAs) THEN "ambiguous short"
        ELSE IF isMulti THEN "multi-part"
        ELSE IF \/ fallbackWasUsed(kb, q, relevantQAs)
                \/ isBehavioralOrPMCXQuestion(Lower(originalQuery))
        THEN "synthesized fallback"
        ELSE "plain"

\* the template the user message is built from
userMessageShape(kb, q, relevantQAs) ==
    LET originalQuery == originalQueryOf(q)
        isSTAR == detectSTARQuery(originalQuery)
        isMulti == detectMultiPartQuery(originalQuery)
    IN  IF intentOf(q) = "technical"
        THEN IF isMulti THEN "technical multi-part"
             ELSE IF isConceptQuestion(Lower(originalQuery)) THEN "technical concept"
             ELSE "plain"
        ELSE IF isShortAmbiguous(originalQuery, relevantQAs) THEN "ambiguous short"
        ELSE IF isSTAR /\ isMulti THEN "STAR multi-part"
        ELSE IF isSTAR THEN "STAR"
        ELSE IF isMulti THEN "multi-part"
        ELSE IF \/ fallbackWasUsed(kb, q, relevantQAs)
                \/ isBehavioralOrPMCXQuestion(Lower(originalQuery))
        THEN "synthesized fallback"
        ELSE "plain"

StarMultiInstruction ==
    <<"Answer", "using", "STAR", "and", "address", "all", "parts", "clearly", ".">>

StarInstruction ==
    <<"Answer", "using", "Situation", ",", "Task", ",", "Action", ",", "Result", "with",
      "labeled", "sections", ".">>

MultiInstruction ==
    <<"Address", "each", "part", "separately", "with", "clear", "transitions", ".">>

\* the sentence that closes the user message after the query, for the three
\* templates that close with one; the other templates close with the query
\* or, for the technical ones, with a numbered list
userMessageInstruction(shape) ==
    CASE shape = "STAR multi-part" -> StarMultiInstruction
      [] shape = "STAR" -> StarInstruction
      [] shape = "multi-part" -> MultiInstruction
      [] OTHER -> <<>>

\* one call of getLLMAnswer: the system prompt's variable parts and the user
\* message (its template, the query it quotes, and for the second pass the
\* previous answer it quotes)
llmCall(kb, q, relevantQAs, previous) ==
    [system |-> [mode |-> IF intentOf(q) = "technical" THEN "technical" ELSE "kyle",
                 userRole |-> classifyUserRole(Lower(originalQueryOf(q))),
                 context |-> contextOf(kb, q, relevantQAs)],
     shape |-> userMessageShape(kb, q, relevantQAs),
     query |-> originalQueryOf(q),
     previous |-> previous]

(***************************************************************************)
(* Anti-repetition                                                         *)
(***************************************************************************)

\* a.toLowerCase().split(/\W+/).filter(t => t.length > 3), as a set
similarityTokens(a) ==
    {LowerWord(a[i]) : i \in {j \in DOMAIN a : IsAlphaWord(a[j]) /\ WordLen(a[j]) > 3}}

\* a variant of textSimilarity: the shared tokens are counted against the
\* tokens of the first text only
textSimilarityOverFirst(a, b) ==
    IF a = <<>> \/ b = <<>> \/ similarityTokens(a) = {} \/ similarityTokens(b) = {}
    THEN Rat(0, 1)
    ELSE Rat(Cardinality(similarityTokens(a) \cap similarityTokens(b)),
             Cardinality(similarityTokens(a)))

\* textSimilarity(a, b) as the pair intersection size, union size
textSimilarity(a, b) ==
    IF a = <<>> \/ b = <<>> \/ similarityTokens(a) = {} \/ similarityTokens(b) = {}
    THEN Rat(0, 1)
    ELSE Rat(Cardinality(similarityTokens(a) \cap similarityTokens(b)),
             Cardinality(similarityTokens(a) \cup similarityTokens(b)))

SIMILARITY_THRESHOLD == Rat(8, 10)

isHighlySimilarAnswer(prev, next) == RatLeq(SIMILARITY_THRESHOLD, textSimilarity(prev, next))

(***************************************************************************)
(* POST /suggest helpers                                                   *)
(***************************************************************************)

\* a variant of markSuggestionUsed: an earlier entry is dropped only when it
\* is spelled like q
markSuggestionUsedExact(recent, q) ==
    IF q = <<>> THEN recent
    ELSE Take(<<q>> \o SelectSeq(recent, LAMBDA x : x # q), 5)

markSuggestionUsed(recent, q) ==
    IF q = <<>> THEN recent
    ELSE Take(<<q>> \o SelectSeq(recent, LAMBDA x : Lower(x) # Lower(q)), 5)

MinSuggestionLen == 4

validSuggestion(t) ==
    LET lower == Lower(t)
    IN  /\ t # <<>>
        /\ StrLen(t) >= MinSuggestionLen
        /\ \E i \in DOMAIN t : t[i] \notin Glued \cup {"--", "*", "/"}
        /\ ~IncludesAnyPhrase(lower, {
                <<"empty", "/", "punctuation", "only">>, <<"empty/punctuation", "only">>,
                <<"single", "phrase">>, <<"one", "phrase">>, <<"short", "phrase">>,
                <<"partial", "question">>, <<"one-word">>, <<"one", "word">>,
                <<"dating">>, <<"girlfriend">>, <<"boyfriend">>, <<"relationship">>,
                <<"personal", "life">>, <<"ui-0">>, <<"ui-1">>, <<"ui-2">>, <<"ui-3">> })

\* the first loop of dedupeAndTrim: the valid items, first occurrences only
RECURSIVE dedupe(_, _)
dedupe(items, seen) ==
    IF items = <<>> THEN <<>>
    ELSE IF ~validSuggestion(items[1]) \/ Lower(items[1]) \in seen
         THEN dedupe(Tail(items), seen)
    ELSE <<items[1]>> \o dedupe(Tail(items), seen \cup {Lower(items[1])})

\* a variant of dedupeAndTrim: the recently used items keep their place
dedupeAndTrimInPlace(items, limit, avoidSet) == Take(dedupe(items, {}), limit)

dedupeAndTrim(items, limit, avoidSet) ==
    LET kept == dedupe(items, {})
        primary == SelectSeq(kept, LAMBDA t : Lower(t) \notin avoidSet)
        deferred == SelectSeq(kept, LAMBDA t : Lower(t) \in avoidSet)
    IN  Take(primary \o deferred, limit)

SuggestLimit == 5

SuggestSearchLimit == 8

QuerySearchLimit == 6

PartialMaxLen == 20

DefaultSuggestions ==
    << <<"Ask", "about", "Kyle's", "experience", "in", "autonomous", "systems", ".">>,
       <<"Ask", "for", "a", "STAR", "example", "about", "a", "project", "risk", ".">> >>

ErrorSuggestions ==
    << <<"Ask", "about", "Kyle's", "experience", "in", "autonomous", "systems", ".">> >>

\* query.length <= 20 || /\w$/.test(query)
isPartial(query) ==
    StrLen(query) <= PartialMaxLen \/ query[Len(query)] \notin Glued \cup {"--", "*", "/"}

\* the relaxed lookup: every question, those containing the query first
fuzzyQuestions(kb, query) ==
    LET fuzzy == [i \in DOMAIN kb |->
                    [index |-> i,
                     score |-> Rat(IF Includes(Lower(kb[i].question), Lower(query))
                                   THEN 10 ELSE 0, 1)]]
    IN  Take(SortDesc(fuzzy), SuggestSearchLimit)

questionsOf(kb, scored) == [i \in DOMAIN scored |-> kb[scored[i].index].question]

allQuestions(kb) == [i \in DOMAIN kb |-> kb[i].question]

\* the suggestions answered once the ranked list hybrid is known
suggestionsFrom(kb, recent, hybrid) ==
    LET avoidSet == {Lower(recent[i]) : i \in DOMAIN recent}
        first == dedupeAndTrim(questionsOf(kb, hybrid), SuggestLimit, avoidSet)
        second == IF first # <<>> THEN first
                  ELSE dedupeAndTrim(allQuestions(kb), SuggestLimit, avoidSet)
    IN  IF second # <<>> THEN second ELSE DefaultSuggestions

(***************************************************************************)
(* The state machine                                                       *)
(***************************************************************************)

VARIABLES
    knowledgeBase,            \* the entries of knowledgeBase.qaDatabase (none when undefined)
    qaDatabaseDefined,        \* knowledgeBase.qaDatabase is an array
    kbEmbeddings,             \* sequence of [index, embedding]
    EMBEDDINGS_ENABLED,
    recentSuggestionPhrases,
    NODE_ENV,                 \* process.env.NODE_ENV
    req,                      \* per in-flight request: its handler's locals and position
    served,                   \* number of requests accepted so far
    call                      \* one call of a helper function: its argument and result

vars == <<knowledgeBase, qaDatabaseDefined, kbEmbeddings, EMBEDDINGS_ENABLED, recentSuggestionPhrases,
          NODE_ENV, req, served, call>>

Slots == {"s1", "s2"}

NoCall == [fn |-> "none", arg |-> <<>>, result |-> <<>>, returned |-> FALSE]

NoResponse ==
    [status |-> 0, kind |-> "none", answer |-> <<>>, error |-> "", message |-> <<>>,
     suggestions |-> <<>>, entries |-> 0]

\* res.json({ answer })
AnswerResponse(text) == [NoResponse EXCEPT !.status = 200, !.kind = "answer", !.answer = text]

\* res.status(code).json({ error, message })
ErrorResponse(code, error, message) ==
    [NoResponse EXCEPT !.status = code, !.kind = "error", !.error = error,
                       !.message = message]

\* res.json({ suggestions }) and res.status(500).json({ suggestions })
SuggestResponse(code, list) ==
    [NoResponse EXCEPT !.status = code, !.kind = "suggestions", !.suggestions = list]

\* res.json({ status: 'Agent K running', entries, embeddings })
StatusResponse(n) == [NoResponse EXCEPT !.status = 200, !.kind = "status", !.entries = n]

\* a handler that throws outside any try: the framework answers 500
UnhandledResponse == [NoResponse EXCEPT !.status = 500, !.kind = "unhandled"]

IdleReq ==
    [handler |-> "none", pc |-> "idle", q |-> NoQuery, lastBotMessage |-> <<>>,
     route |-> "none", relevantQAs |-> <<>>, firstAnswer |-> <<>>, altRaw |-> <<>>,
     answerRaw |-> <<>>,
     embedInputs |-> <<>>, embedReply |-> NotCalled, llmCalls |-> <<>>,
     thrown |-> <<>>, response |-> NoResponse]

\* the message of the TypeError thrown by q.trim() when q is not a string
TypeErrorMessage == <<"q.trim", "is", "not", "a", "function">>

\* the message of the TypeError thrown by knowledgeBase.qaDatabase.length
\* when qaDatabase is undefined
LengthErrorMessage == <<"Cannot", "read", "properties", "of", "undefined">>

\* the catch block of POST /query
queryCatch(env, errMessage) ==
    ErrorResponse(500, "Temporary issue",
                  IF env = "development" THEN errMessage ELSE GenericErrorText)

\* what a service call can do: answer with a text (possibly empty) or throw
TextReply(t) == [kind |-> "text", text |-> t, error |-> <<>>]

ThrowReply(msg) == [kind |-> "throw", text |-> <<>>, error |-> msg]

(***************************************************************************)
(* Inputs and service replies the model draws from                         *)
(***************************************************************************)

KBFixture == <<
    [question |-> <<"What", "testing", "programs", "has", "Kyle", "led">>,
     answer |-> <<"Kyle", "led", "structured", "testing", "programs", ".", "He", "improved",
                  "reliability", ".">>,
     keywords |-> << <<"testing", "programs">>, <<"validation">> >>],
    [question |-> <<"How", "did", "Kyle", "improve", "label", "quality">>,
     answer |-> <<"Kyle", "improved", "label", "quality", "for", "training", "data", ".">>,
     keywords |-> << >>],
    [question |-> <<"Kyle", "data", "programs">>,
     answer |-> <<"Kyle", "ran", "label", "quality", "programs", "for", "data", "teams", ".">>,
     keywords |-> << <<"label", "quality">>, <<"data">> >>],
    [question |-> <<"Kyle", "lidar", "work">>,
     answer |-> <<"Kyle", "validated", "lidar", "sensors", ".">>,
     keywords |-> << <<"lidar">> >>],
    [question |-> <<"Kyle", "onboarding", "work">>,
     answer |-> <<"Kyle", "managed", "enterprise", "onboarding", ".">>,
     keywords |-> << <<"onboarding">> >>],
    [question |-> <<"Kyle", "tools">>,
     answer |-> <<"Kyle", "built", "applied", "tools", ".">>,
     keywords |-> << >>],
    [question |-> <<"Kyle", "field", "operations">>,
     answer |-> <<"Kyle", "ran", "field", "operations", ".">>,
     keywords |-> << <<"operations">> >>] >>

KnowledgeBases == {<<>>, KBFixture}

\* what buildKnowledgeBaseEmbeddings leaves behind when every batch call succeeds
EmbeddingsFixture == <<
    [index |-> 1, embedding |-> <<1, 0>>],
    [index |-> 2, embedding |-> <<3, 4>>],
    [index |-> 3, embedding |-> <<0, 1>>],
    [index |-> 4, embedding |-> <<-1, 0>>],
    [index |-> 5, embedding |-> <<0, -1>>],
    [index |-> 6, embedding |-> <<4, 3>>],
    [index |-> 7, embedding |-> <<-3, 4>>] >>

QueryVectors == {<<1, 0>>, <<4, 3>>, <<0, 0>>}

EmbedReplies == {Failed} \cup {Returned(v) : v \in QueryVectors}

TextA == <<"Kyle", "led", "structured", "testing", "programs", ".", "He", "improved",
           "reliability", "across", "teams", ".">>

TextA2 == <<"Kyle", "improved", "reliability", "across", "teams", ".", "He", "led",
            "structured", "testing", "programs", "daily", ".">>

TextB == <<"Kyle", "built", "applied", "tools", "using", "Node", ".", "Kyle", "also",
           "managed", "enterprise", "onboarding", ".">>

TextI == <<"I", "am", "confident", "in", "this", "area", ".", "My", "work", "speaks", "for",
           "me", ".">>

TextStar == <<"Situation", ":", "Kyle", "faced", "a", "labeling", "backlog", ".", "Task", ":",
              "He", "owned", "the", "plan", ".", "Action", ":", "He", "staffed", "reviews",
              ".", "Result", ":", "Quality", "rose", ".">>

NoKeywordsText == <<"Ok", "!">>

GenErrorMessage == <<"429", "rate_limit_exceeded">>

GenReplies == {TextReply(t) : t \in {<<>>, TextA, TextA2, TextB, TextI, TextStar}}
              \cup {ThrowReply(GenErrorMessage)}

JokeReplies == {TextReply(<<>>), TextReply(TextA), TextReply(TextI), ThrowReply(GenErrorMessage)}

LastBotMessages == {<<>>, TextA, NoKeywordsText}

QueryTexts == {
    <<>>,
    <<"k">>, <<"???">>, <<"yes">>, <<"OK">>, <<"sure">>,
    <<"you", "are", "stupid">>, <<"tell", "me", "a", "joke", "stupid">>,
    <<"tell", "me", "a", "joke">>, <<"joke", "about", "cats">>,
    <<"tell", "me", "a", "joke", "about", "failure">>,
    <<"i", "am", "confused">>, <<"who", "is", "kyle">>, <<"tell", "me", "everything">>,
    <<"can", "he", "handle", "lidar">>, <<"salary", "range">>,
    <<"what", "do", "you", "know">>, <<"key", "wins">>, <<"workflow">>,
    <<"greatest", "weakness">>, <<"stupid", "weakness">>, <<"prove", "it">>, <<"hello">>,
    <<"thank", "you">>, <<"weather", "today">>,
    <<"What", "testing", "programs", "has", "Kyle", "led">>,
    <<"what", "testing", "programs", "has", "kyle", "led">>,
    <<"How", "did", "Kyle", "improve", "label", "quality">>,
    <<"Kyle", "data", "programs">>, <<"Kyle", "lidar", "work">>,
    <<"tell", "me", "about", "a", "time", "kyle", "led", "a", "project">>,
    <<"what", "is", "RL">>, <<"kyle", "testing">>,
    <<"kyle", "managment", "experiance">>, <<"time", "your", "runs">>,
    <<"kyle", "validation", "and", "testing", "?">>,
    <<"where", "does", "he", "live">> }

Queries ==
    {NoQuery, NumberQuery, StringQuery(TRUE, <<>>), StringQuery(TRUE, <<"hello">>)}
    \cup {StringQuery(FALSE, t) : t \in QueryTexts}

MaxRequests == 2

(***************************************************************************)
(* Actions                                                                 *)
(***************************************************************************)

\* what ./knowledge-base.json can be at startup
KBFiles ==
    {[kind |-> k, qaDatabase |-> <<>>] : k \in {"missing", "unparsable", "noQaDatabase"}}
    \cup {[kind |-> "parsed", qaDatabase |-> kb] : kb \in KnowledgeBases}

\* the startup block: readFile, JSON.parse, then the log line that reads
\* knowledgeBase.qaDatabase.length; knowledgeBase is assigned before that line
loadKnowledgeBase(file) ==
    IF file.kind = "parsed"
    THEN [qaDatabase |-> file.qaDatabase, defined |-> TRUE]
    ELSE [qaDatabase |-> <<>>, defined |-> file.kind # "noQaDatabase"]

\* what the embedding service does at startup: it has no embeddings API, a
\* batch call throws, or every batch call answers
EmbeddingServices == {"unavailable", "throws", "answers"}

\* kbEmbeddings and EMBEDDINGS_ENABLED as startup leaves them; the build runs
\* only after the file was parsed and its qaDatabase read
buildKnowledgeBaseEmbeddings(file, service) ==
    IF file.kind = "parsed" /\ file.qaDatabase # <<>> /\ service = "answers"
    THEN [kbEmbeddings |-> EmbeddingsFixture, enabled |-> TRUE]
    ELSE [kbEmbeddings |-> <<>>, enabled |-> FALSE]

Init ==
    /\ \E file \in KBFiles, service \in EmbeddingServices :
           /\ knowledgeBase = loadKnowledgeBase(file).qaDatabase
           /\ qaDatabaseDefined = loadKnowledgeBase(file).defined
           /\ kbEmbeddings = buildKnowledgeBaseEmbeddings(file, service).kbEmbeddings
           /\ EMBEDDINGS_ENABLED = buildKnowledgeBaseEmbeddings(file, service).enabled
    /\ recentSuggestionPhrases = <<>>
    /\ NODE_ENV \in {"production", "development"}
    /\ req = [r \in Slots |-> IdleReq]
    /\ served = 0
    /\ call = NoCall

Frozen ==
    UNCHANGED <<knowledgeBase, qaDatabaseDefined, kbEmbeddings, EMBEDDINGS_ENABLED, NODE_ENV,
                call>>

Done(rec, response) == [rec EXCEPT !.pc = "done", !.response = response]

\* the empty-answer fallback of the first pass
fallbackAnswer(q) ==
    IF intentOf(q) = "technical" THEN FallbackTechnicalText ELSE FallbackKyleText

\* the handler from the end of retrieval to its next await or its response
afterRetrieval(kb, rec, relevantQAs) ==
    IF isStrongHit(rec.q, relevantQAs)
    THEN Done([rec EXCEPT !.relevantQAs = relevantQAs],
              AnswerResponse(sanitizeOutput(kb[relevantQAs[1].index].answer)))
    ELSE [rec EXCEPT !.relevantQAs = relevantQAs,
                     !.pc = "gen1",
                     !.llmCalls = <<llmCall(kb, rec.q, relevantQAs, <<>>)>>]

\* a variant of cannedEntry: the branch asks the generation service for its text
cannedEntryAsksModel(rec, route, originalQuery) ==
    [rec EXCEPT !.pc = "gen1",
                !.llmCalls = <<[system |-> [mode |-> "kyle", userRole |-> "general",
                                            context |-> NoContext],
                                shape |-> "plain", query |-> originalQuery,
                                previous |-> <<>>]>>]

\* a canned branch: res.json({ answer: sanitizeOutput(<the branch's text>) })
cannedEntry(rec, route, originalQuery) ==
    Done(rec, AnswerResponse(sanitizeOutput(cannedText(route, originalQuery))))

\* the handler from its entry to its first await or its response
queryEntry(kb, emb, enabled, env, q, lastBotMessage) ==
    LET rec == [IdleReq EXCEPT !.handler = "query", !.q = q,
                               !.lastBotMessage = lastBotMessage]
        originalQuery == originalQueryOf(q)
        route == routeOf(q, lastBotMessage)
        routed == [rec EXCEPT !.route = route]
    IN  IF Falsy(q) THEN Done(rec, ErrorResponse(400, "Query required", <<>>))
        ELSE IF q.kind # "string"
        THEN Done([rec EXCEPT !.thrown = TypeErrorMessage], queryCatch(env, TypeErrorMessage))
        ELSE IF route = "joke"
        THEN [routed EXCEPT !.pc = "joke",
                            !.llmCalls = <<[system |-> [mode |-> "joke", userRole |-> "",
                                                        context |-> NoContext],
                                            shape |-> "joke", query |-> <<>>,
                                            previous |-> <<>>]>>]
        ELSE IF route # "retrieve"
        THEN cannedEntry(routed, route, originalQuery)
        ELSE IF ~retrievalRuns(q) THEN afterRetrieval(kb, routed, <<>>)
        ELSE IF searchCallsEmbedding(kb, emb, enabled, originalQuery)
        THEN [routed EXCEPT !.pc = "embed", !.embedInputs = <<originalQuery>>]
        ELSE afterRetrieval(kb, routed,
                hybridSearchKnowledgeBase(kb, emb, enabled, originalQuery,
                                          QuerySearchLimit, NotCalled))

\* a variant of isExactKBQuestion: every query counts as a clicked suggestion
isExactKBQuestionLoose(kb, originalQuery) == kb # <<>> /\ originalQuery # <<>>

\* qa.question.trim().toLowerCase() === normalizedForSuggestion.toLowerCase()
isExactKBQuestion(kb, originalQuery) ==
    \E i \in DOMAIN kb : kb[i].question # <<>> /\ Lower(kb[i].question) = Lower(originalQuery)

QueryStart(r, q, lastBotMessage) ==
    /\ req[r].pc = "idle"
    /\ served < MaxRequests
    /\ served' = served + 1
    /\ req' = [req EXCEPT ![r] = queryEntry(knowledgeBase, kbEmbeddings, EMBEDDINGS_ENABLED,
                                            NODE_ENV, q, lastBotMessage)]
    /\ recentSuggestionPhrases' =
          IF /\ ~Falsy(q)
             /\ q.kind = "string"
             /\ isExactKBQuestion(knowledgeBase, originalQueryOf(q))
          THEN markSuggestionUsed(recentSuggestionPhrases, originalQueryOf(q))
          ELSE recentSuggestionPhrases
    /\ Frozen

\* the embedding call of hybridSearchKnowledgeBase returns or fails
QueryEmbedReturn(r, reply) ==
    /\ req[r].handler = "query"
    /\ req[r].pc = "embed"
    /\ req' = [req EXCEPT ![r] =
                  afterRetrieval(knowledgeBase, [req[r] EXCEPT !.embedReply = reply],
                      hybridSearchKnowledgeBase(knowledgeBase, kbEmbeddings,
                          EMBEDDINGS_ENABLED, originalQueryOf(req[r].q),
                          QuerySearchLimit, reply))]
    /\ UNCHANGED <<recentSuggestionPhrases, served>>
    /\ Frozen

\* lastBotMessage && answerRaw && isHighlySimilarAnswer(lastBotMessage, answerRaw)
needsSecondPass(lastBotMessage, answerRaw) ==
    lastBotMessage # <<>> /\ answerRaw # <<>> /\ isHighlySimilarAnswer(lastBotMessage, answerRaw)

\* a variant of acceptsAlternative: any non-empty alternative replaces the first answer
acceptsAlternativeAlways(lastBotMessage, altRaw) == altRaw # <<>>

\* altRaw && !isHighlySimilarAnswer(lastBotMessage, altRaw)
acceptsAlternative(lastBotMessage, altRaw) ==
    altRaw # <<>> /\ ~isHighlySimilarAnswer(lastBotMessage, altRaw)

\* the first getLLMAnswer call returns or throws
FirstPassReturn(r, reply) ==
    /\ req[r].pc = "gen1"
    /\ LET rec == req[r]
           answerRaw == IF reply.text = <<>> THEN fallbackAnswer(rec.q) ELSE reply.text
       IN  req' = [req EXCEPT ![r] =
               IF reply.kind = "throw"
               THEN Done([rec EXCEPT !.thrown = reply.error], queryCatch(NODE_ENV, reply.error))
               ELSE IF needsSecondPass(rec.lastBotMessage, answerRaw)
               THEN [rec EXCEPT !.pc = "gen2",
                                !.answerRaw = answerRaw,
                                !.firstAnswer = answerRaw,
                                !.llmCalls = Append(rec.llmCalls,
                                    llmCall(knowledgeBase, rec.q, rec.relevantQAs,
                                            rec.lastBotMessage))]
               ELSE Done([rec EXCEPT !.answerRaw = answerRaw, !.firstAnswer = answerRaw],
                         AnswerResponse(sanitizeOutput(answerRaw)))]
    /\ UNCHANGED <<recentSuggestionPhrases, served>>
    /\ Frozen

\* a variant of SecondPassReturn: it asks again while the alternative is still a repeat
SecondPassRetries(r, reply) ==
    /\ req[r].pc = "gen2"
    /\ LET rec == req[r]
       IN  req' = [req EXCEPT ![r] =
               IF reply.kind = "throw"
               THEN Done([rec EXCEPT !.thrown = reply.error], queryCatch(NODE_ENV, reply.error))
               ELSE IF acceptsAlternative(rec.lastBotMessage, reply.text)
               THEN Done([rec EXCEPT !.answerRaw = reply.text, !.altRaw = reply.text],
                         AnswerResponse(sanitizeOutput(reply.text)))
               ELSE [rec EXCEPT !.altRaw = reply.text,
                                !.llmCalls = Append(rec.llmCalls,
                                    llmCall(knowledgeBase, rec.q, rec.relevantQAs,
                                            rec.lastBotMessage))]]
    /\ UNCHANGED <<recentSuggestionPhrases, served>>
    /\ Frozen

\* a second pass that falls back on the first answer when the diversification call throws
SecondPassReturnKeepsFirst(r, reply) ==
    /\ req[r].pc = "gen2"
    /\ LET rec == req[r]
           answerRaw == IF reply.kind = "text" /\ acceptsAlternative(rec.lastBotMessage, reply.text)
                        THEN reply.text ELSE rec.answerRaw
       IN  req' = [req EXCEPT ![r] =
               Done([rec EXCEPT !.answerRaw = answerRaw, !.altRaw = reply.text,
                                !.thrown = reply.error],
                    AnswerResponse(sanitizeOutput(answerRaw)))]
    /\ UNCHANGED <<recentSuggestionPhrases, served>>
    /\ Frozen

\* the diversification call returns or throws
SecondPassReturn(r, reply) ==
    /\ req[r].pc = "gen2"
    /\ LET rec == req[r]
           answerRaw == IF acceptsAlternative(rec.lastBotMessage, reply.text)
                        THEN reply.text ELSE rec.answerRaw
       IN  req' = [req EXCEPT ![r] =
               IF reply.kind = "throw"
               THEN Done([rec EXCEPT !.thrown = reply.error], queryCatch(NODE_ENV, reply.error))
               ELSE Done([rec EXCEPT !.answerRaw = answerRaw, !.altRaw = reply.text],
                         AnswerResponse(sanitizeOutput(answerRaw)))]
    /\ UNCHANGED <<recentSuggestionPhrases, served>>
    /\ Frozen

\* the easter-egg joke call returns or throws
JokeReturn(r, reply) ==
    /\ req[r].pc = "joke"
    /\ req' = [req EXCEPT ![r] =
           IF reply.kind = "throw"
           THEN Done([req[r] EXCEPT !.thrown = reply.error], AnswerResponse(JokeTroubleText))
           ELSE LET jokeText == IF reply.text = <<>> THEN JokeDefaultText ELSE reply.text
                IN  Done([req[r] EXCEPT !.firstAnswer = jokeText],
                         AnswerResponse(formatParagraphs(jokeText)))]
    /\ UNCHANGED <<recentSuggestionPhrases, served>>
    /\ Frozen

\* POST /suggest from its entry to its await or its response
suggestEntry(kb, emb, enabled, recent, q) ==
    LET rec == [IdleReq EXCEPT !.handler = "suggest", !.q = q]
        query == originalQueryOf(q)
    IN  IF q.kind = "number"
        THEN Done([rec EXCEPT !.thrown = TypeErrorMessage], SuggestResponse(500, ErrorSuggestions))
        ELSE IF q.kind = "missing" \/ q.toks = <<>>
        THEN Done(rec, SuggestResponse(200,
                 LET s == dedupeAndTrim(allQuestions(kb), SuggestLimit,
                                        {Lower(recent[i]) : i \in DOMAIN recent})
                 IN  IF s # <<>> THEN s ELSE DefaultSuggestions))
        ELSE IF isPartial(query)
        THEN Done(rec, SuggestResponse(200, suggestionsFrom(kb, recent, fuzzyQuestions(kb, query))))
        ELSE IF searchCallsEmbedding(kb, emb, enabled, query)
        THEN [rec EXCEPT !.pc = "embed", !.embedInputs = <<query>>]
        ELSE Done(rec, SuggestResponse(200, suggestionsFrom(kb, recent,
                 hybridSearchKnowledgeBase(kb, emb, enabled, query, SuggestSearchLimit,
                                           NotCalled))))

SuggestStart(r, q) ==
    /\ req[r].pc = "idle"
    /\ served < MaxRequests
    /\ served' = served + 1
    /\ req' = [req EXCEPT ![r] = suggestEntry(knowledgeBase, kbEmbeddings, EMBEDDINGS_ENABLED,
                                              recentSuggestionPhrases, q)]
    /\ UNCHANGED recentSuggestionPhrases
    /\ Frozen

SuggestEmbedReturn(r, reply) ==
    /\ req[r].handler = "suggest"
    /\ req[r].pc = "embed"
    /\ req' = [req EXCEPT ![r] =
           Done([req[r] EXCEPT !.embedReply = reply], SuggestResponse(200,
               suggestionsFrom(knowledgeBase, recentSuggestionPhrases,
                   hybridSearchKnowledgeBase(knowledgeBase, kbEmbeddings, EMBEDDINGS_ENABLED,
                       originalQueryOf(req[r].q), SuggestSearchLimit, reply))))]
    /\ UNCHANGED <<recentSuggestionPhrases, served>>
    /\ Frozen

\* GET /
GetRoot(r) ==
    /\ req[r].pc = "idle"
    /\ served < MaxRequests
    /\ served' = served + 1
    /\ req' = [req EXCEPT ![r] =
           LET rec == [IdleReq EXCEPT !.handler = "root"]
           IN  IF qaDatabaseDefined
               THEN Done(rec, StatusResponse(Len(knowledgeBase)))
               ELSE Done([rec EXCEPT !.thrown = LengthErrorMessage], UnhandledResponse)]
    /\ UNCHANGED recentSuggestionPhrases
    /\ Frozen

\* the response has been sent; the slot takes the next request
Close(r) ==
    /\ req[r].pc = "done"
    /\ req' = [req EXCEPT ![r] = IdleReq]
    /\ UNCHANGED <<recentSuggestionPhrases, served>>
    /\ Frozen

SpecSlots == {"s1"}

Next ==
    \E r \in SpecSlots :
        \/ \E q \in Queries, m \in LastBotMessages : QueryStart(r, q, m)
        \/ \E reply \in EmbedReplies : QueryEmbedReturn(r, reply)
        \/ \E reply \in GenReplies : FirstPassReturn(r, reply)
        \/ \E reply \in GenReplies : SecondPassReturn(r, reply)
        \/ \E reply \in JokeReplies : JokeReturn(r, reply)
        \/ \E q \in Queries : SuggestStart(r, q)
        \/ \E reply \in EmbedReplies : SuggestEmbedReturn(r, reply)
        \/ GetRoot(r)
        \/ Close(r)

Spec == Init /\ [][Next]_vars

(***************************************************************************)
(* POST /suggest on a knowledge base with repeated questions, after some   *)
(* suggestions were marked used                                            *)
(***************************************************************************)

\* a knowledge base whose questions repeat in another letter case
RepeatsFixture == <<
    [question |-> <<"Kyle", "lidar", "work">>,
     answer |-> <<"Kyle", "validated", "lidar", "sensors", ".">>,
     keywords |-> << <<"lidar">> >>],
    [question |-> <<"kyle", "LIDAR", "work">>,
     answer |-> <<"Kyle", "validated", "lidar", "sensors", ".">>,
     keywords |-> << <<"lidar">> >>],
    [question |-> <<"Kyle", "data", "programs">>,
     answer |-> <<"Kyle", "ran", "label", "quality", "programs", "for", "data", "teams", ".">>,
     keywords |-> << <<"label", "quality">>, <<"data">> >>],
    [question |-> <<"Kyle", "tools">>,
     answer |-> <<"Kyle", "built", "applied", "tools", ".">>,
     keywords |-> << >>],
    [question |-> <<"ok">>,
     answer |-> <<"Kyle", "agreed", ".">>,
     keywords |-> << >>],
    [question |-> <<"Kyle", "onboarding", "work">>,
     answer |-> <<"Kyle", "managed", "enterprise", "onboarding", ".">>,
     keywords |-> << <<"onboarding">> >>],
    [question |-> <<"Kyle", "field", "operations">>,
     answer |-> <<"Kyle", "ran", "field", "operations", ".">>,
     keywords |-> << <<"operations">> >>],
    [question |-> <<"How", "did", "Kyle", "improve", "label", "quality">>,
     answer |-> <<"Kyle", "improved", "label", "quality", "for", "training", "data", ".">>,
     keywords |-> << >>],
    [question |-> <<"kyle", "tools">>,
     answer |-> <<"Kyle", "built", "applied", "tools", ".">>,
     keywords |-> << >>] >>

\* what earlier queries passed to markSuggestionUsed, the first query first:
\* questions both fixtures hold, as they are written or typed in lower case
MarkedBefore ==
    {<<>>,
     << <<"Kyle", "lidar", "work">> >>,
     << <<"kyle", "lidar", "work">> >>,
     << <<"kyle", "data", "programs">>, <<"Kyle", "lidar", "work">> >>,
     << <<"Kyle", "data", "programs">>, <<"kyle", "lidar", "work">> >>,
     << <<"Kyle", "lidar", "work">>, <<"kyle", "data", "programs">>, <<"Kyle", "tools">> >>,
     << <<"kyle", "tools">>, <<"Kyle", "data", "programs">>, <<"Kyle", "lidar", "work">>,
        <<"kyle", "lidar", "work">> >>}

\* recentSuggestionPhrases after the queries in marks
RECURSIVE recentAfter(_)
recentAfter(marks) ==
    IF marks = <<>> THEN <<>>
    ELSE markSuggestionUsed(recentAfter(SubSeq(marks, 1, Len(marks) - 1)), marks[Len(marks)])

RecentLists(kb) == IF kb = <<>> THEN {<<>>} ELSE {recentAfter(marks) : marks \in MarkedBefore}

SuggestQueries ==
    {NoQuery, NumberQuery, StringQuery(FALSE, <<"kyle">>), StringQuery(FALSE, <<"lidar">>),
     StringQuery(FALSE, <<"kyle", "validation", "and", "testing", "?">>)}

SuggestInit ==
    /\ knowledgeBase \in {<<>>, KBFixture, RepeatsFixture}
    /\ qaDatabaseDefined = TRUE
    /\ \/ /\ knowledgeBase = KBFixture
          /\ kbEmbeddings = EmbeddingsFixture
          /\ EMBEDDINGS_ENABLED = TRUE
       \/ /\ kbEmbeddings = <<>>
          /\ EMBEDDINGS_ENABLED = FALSE
    /\ recentSuggestionPhrases \in RecentLists(knowledgeBase)
    /\ NODE_ENV = "production"
    /\ req = [r \in Slots |-> IdleReq]
    /\ served = 0
    /\ call = NoCall

SuggestNext ==
    \E r \in SpecSlots :
        \/ \E q \in SuggestQueries : SuggestStart(r, q)
        \/ \E reply \in EmbedReplies : SuggestEmbedReturn(r, reply)
        \/ Close(r)

SuggestSpec == SuggestInit /\ [][SuggestNext]_vars


(***************************************************************************)
(* POST /query and POST /suggest in flight at the same time, on clicked    *)
(* suggestions                                                             *)
(***************************************************************************)

\* five questions of the fixture marked one after the other
FiveMarks ==
    << <<"Kyle", "field", "operations">>, <<"kyle", "tools">>, <<"Kyle", "onboarding", "work">>,
       <<"Kyle", "data", "programs">>, <<"kyle", "lidar", "work">> >>

\* clicked suggestions, as written and in another letter case, and a query
\* that is no question of the knowledge base
MarkQueries ==
    {StringQuery(FALSE, t) :
        t \in {<<"Kyle", "lidar", "work">>, <<"Kyle", "LIDAR", "Work">>, <<"Kyle", "tools">>,
               <<"How", "did", "Kyle", "improve", "label", "quality">>,
               <<"where", "does", "he", "live">>}}

MarkInit ==
    /\ knowledgeBase = KBFixture
    /\ qaDatabaseDefined = TRUE
    /\ kbEmbeddings = EmbeddingsFixture
    /\ EMBEDDINGS_ENABLED = TRUE
    /\ recentSuggestionPhrases \in
          {recentAfter(marks) : marks \in {<<>>, SubSeq(FiveMarks, 1, 4), FiveMarks}}
    /\ NODE_ENV = "production"
    /\ req = [r \in Slots |-> IdleReq]
    /\ served = 0
    /\ call = NoCall

MarkNext ==
    \E r \in Slots :
        \/ \E q \in MarkQueries : QueryStart(r, q, <<>>)
        \/ \E reply \in {Failed, Returned(<<1, 0>>)} : QueryEmbedReturn(r, reply)
        \/ FirstPassReturn(r, TextReply(TextA))
        \/ \E q \in {StringQuery(FALSE, <<"kyle", "validation", "and", "testing", "?">>)} :
              SuggestStart(r, q)
        \/ \E reply \in {Failed, Returned(<<1, 0>>)} : SuggestEmbedReturn(r, reply)
        \/ Close(r)

MarkSpec == MarkInit /\ [][MarkNext]_vars

(***************************************************************************)
(* The helper functions of the handlers, called on their own               *)
(***************************************************************************)

MaxKBSize == 25

Pending(fn, arg) == [fn |-> fn, arg |-> arg, result |-> <<>>, returned |-> FALSE]

\* the sizes of knowledge base the sample is taken from
SampleCalls == {Pending("sampleIndices", total) : total \in 1..MaxKBSize}

\* the length of the decimal numeral of n
RECURSIVE DecimalLen(_)
DecimalLen(n) == IF n < 10 THEN 1 ELSE 1 + DecimalLen(n \div 10)

RelevantHeader == "RELEVANT BACKGROUND (PARAPHRASE ONLY):"
SampleHeader == "RELEVANT BACKGROUND (SYNTHESIZED SAMPLE):"

\* the length of `${idx + 1}. Question: ${qa.question}\n   Answer: ${qa.answer}\n\n`
contextLineLength(idx, qa) ==
    DecimalLen(idx) + Len(". Question: ") + StrLen(qa.question)
    + 1 + Len("   Answer: ") + StrLen(qa.answer) + 2

\* contextText as the handler leaves it for the user message: how many
\* entries it lists, its length, and whether it ends in a truncation marker
contextText(kb, context) ==
    IF context.kind = "none"
    THEN [entries |-> 0, length |-> 0, truncated |-> FALSE]
    ELSE [entries |-> Len(context.entries),
          length |-> 2 + Len(IF context.kind = "relevant" THEN RelevantHeader
                             ELSE SampleHeader) + 2
                     + SumSeq([k \in 1..Len(context.entries) |->
                                  contextLineLength(k, kb[context.entries[k]])]),
          truncated |-> FALSE]

\* the safety cap of the documented context build
ContextCharBudget == 6000
TruncationMarker == "... [truncated for length]"

\* a knowledge base whose answers are a paragraph long
LongAnswer == [j \in 1..40 |-> "instrumentation"]
LongKB(n) ==
    [i \in 1..n |-> [question |-> <<"Kyle", "validation", "work">>,
                     answer |-> LongAnswer,
                     keywords |-> << >>]]

\* the contexts the handler can build from a knowledge base: none, the
\* first entries of a ranking, or the sample
ContextsOf(kb) ==
    {NoContext}
    \cup {[kind |-> "relevant", entries |-> [i \in 1..n |-> Len(kb) + 1 - i]] :
              n \in 1..(IF Len(kb) < MaxContextEntries THEN Len(kb) ELSE MaxContextEntries)}
    \cup {[kind |-> "sample", entries |-> sampleIndices(Len(kb))]}

ContextCalls ==
    UNION {{Pending("contextText", [kb |-> kb, context |-> c]) : c \in ContextsOf(kb)} :
              kb \in {KBFixture, LongKB(5), LongKB(12)}}

\* normalizeQuery called on a value: undefined and "" are returned as they
\* are, a value that is no string has no replace method
normalizeQueryOf(v) ==
    IF Falsy(v) THEN [threw |-> FALSE, value |-> v]
    ELSE IF v.kind # "string" THEN [threw |-> TRUE, value |-> v]
    ELSE [threw |-> FALSE, value |-> StringQuery(v.pad, normalizeQuery(v.toks))]

\* every misspelling and every replacement of the table, and texts around them
NormalizeTexts ==
    {<<replacements[k][1]>> : k \in DOMAIN replacements}
    \cup {<<replacements[k][2]>> : k \in DOMAIN replacements}
    \cup {<<"Dataa">>, <<"VALDIATION">>, <<"datta">>, <<"database">>,
          <<"Kyle", "managment", "experiance", "?">>,
          <<"programm", "managment", "and", "program", "management">>,
          <<"what", "is", "Kyle", "'s", "sucess", "with", "autonmous", "perseption">>}

NormalizeCalls ==
    {Pending("normalizeQuery", v) :
        v \in {NoQuery, NumberQuery, StringQuery(FALSE, <<>>), StringQuery(TRUE, <<>>)}
              \cup {StringQuery(FALSE, t) : t \in NormalizeTexts}}

\* queries, and text a user adds behind them
ScoreQueries ==
    {<<"lidar">>, <<"Kyle", "lidar">>, <<"label", "quality">>, <<"tools">>,
     <<"How", "did", "Kyle", "improve", "label">>, <<"hello">>}

AddedTexts ==
    {<<"work">>, <<"sensors">>, <<",", "work", "?">>, <<"quality", "programs">>,
     <<"for", "training", "data", ".">>, <<"?">>}

ScoreCalls ==
    {Pending("keywordScoreAll", [kb |-> KBFixture, query |-> q, added |-> a]) :
        q \in ScoreQueries, a \in AddedTexts}

\* searches over the fixture, with and without embeddings, for the limits
\* the routes pass and two smaller ones
SearchQueries ==
    {<<"Kyle", "lidar">>, <<"Kyle", "tools">>, <<"hello">>, <<"label", "quality", "programs">>}

SearchLimits == {1, 3, QuerySearchLimit, SuggestSearchLimit}

SearchCalls ==
    {Pending("hybridSearchKnowledgeBase",
             [kb |-> KBFixture, emb |-> EmbeddingsFixture, enabled |-> e, query |-> q,
              limit |-> l, reply |-> IF e THEN r ELSE NotCalled]) :
        e \in BOOLEAN, q \in SearchQueries, l \in SearchLimits, r \in EmbedReplies}

\* answers to compare: equal, nearly equal, one holding the other, disjoint,
\* empty, and without a word of more than 3 characters
AnswerTexts ==
    {<<>>, <<"ok", "we", "do", ".">>, TextA, TextA2, TextB, TextA \o TextB, TextI,
     <<"Kyle", "validated", "lidar", "sensors", ".">>}

SimilarityCalls ==
    {Pending("isHighlySimilarAnswer", [prev |-> a, next |-> b]) :
        a \in AnswerTexts, b \in AnswerTexts}

\* replies of the model in the first person, in one or more lines
VoiceTexts ==
    {<<>>, TextA, TextI,
     <<"I", "am", "Agent", "K", ".", NL, "I", "led", "my", "team", "myself", ".">>,
     <<"I've", "led", "audits", ".", NL, NL, "Ask", "me", "about", "Agent", "K", "!">>,
     <<"I'm", "sure", "I'd", "do", "it", "again", ".", NL, "I'll", "explain", ".">>,
     <<"Honestly", ",", "i", "led", "the", "review", ".">>,
     <<"i", "am", "proud", "of", "MY", "work", ".">>}

VoiceCalls == {Pending("enforceThirdPersonForKyle", t) : t \in VoiceTexts}

Calls ==
    SampleCalls \cup ContextCalls \cup NormalizeCalls \cup ScoreCalls \cup SearchCalls
    \cup SimilarityCalls \cup VoiceCalls

FnInit ==
    /\ call \in Calls
    /\ knowledgeBase = <<>>
    /\ qaDatabaseDefined = TRUE
    /\ kbEmbeddings = <<>>
    /\ EMBEDDINGS_ENABLED = FALSE
    /\ recentSuggestionPhrases = <<>>
    /\ NODE_ENV = "production"
    /\ req = [r \in Slots |-> IdleReq]
    /\ served = 0

CallReturned(result) == [call EXCEPT !.result = result, !.returned = TRUE]

Untouched ==
    UNCHANGED <<knowledgeBase, qaDatabaseDefined, kbEmbeddings, EMBEDDINGS_ENABLED,
                recentSuggestionPhrases, NODE_ENV, req, served>>

\* the loop that fills contextSample
SampleReturn ==
    /\ call.fn = "sampleIndices"
    /\ ~call.returned
    /\ call' = CallReturned(sampleIndices(call.arg))
    /\ Untouched

\* the context build, up to the user message construction
ContextReturn ==
    /\ call.fn = "contextText"
    /\ ~call.returned
    /\ call' = CallReturned(contextText(call.arg.kb, call.arg.context))
    /\ Untouched

NormalizeReturn ==
    /\ call.fn = "normalizeQuery"
    /\ ~call.returned
    /\ call' = CallReturned(normalizeQueryOf(call.arg))
    /\ Untouched

\* keywordScoreAll on a query, and on the query with text added behind it
KeywordScoreReturn ==
    /\ call.fn = "keywordScoreAll"
    /\ ~call.returned
    /\ call' = CallReturned(
           [before |-> keywordScoreAll(call.arg.kb, call.arg.query),
            after |-> keywordScoreAll(call.arg.kb, call.arg.query \o call.arg.added)])
    /\ Untouched

\* hybridSearchKnowledgeBase, called twice on the same inputs
SearchReturn ==
    /\ call.fn = "hybridSearchKnowledgeBase"
    /\ ~call.returned
    /\ call' = CallReturned(
           [first |-> hybridSearchKnowledgeBase(call.arg.kb, call.arg.emb, call.arg.enabled,
                                                call.arg.query, call.arg.limit, call.arg.reply),
            again |-> hybridSearchKnowledgeBase(call.arg.kb, call.arg.emb, call.arg.enabled,
                                                call.arg.query, call.arg.limit, call.arg.reply)])
    /\ Untouched

\* isHighlySimilarAnswer, called with the two texts in either order
SimilarityReturn ==
    /\ call.fn = "isHighlySimilarAnswer"
    /\ ~call.returned
    /\ call' = CallReturned(
           [there |-> isHighlySimilarAnswer(call.arg.prev, call.arg.next),
            back |-> isHighlySimilarAnswer(call.arg.next, call.arg.prev)])
    /\ Untouched

\* the first step of sanitizeOutput
VoiceReturn ==
    /\ call.fn = "enforceThirdPersonForKyle"
    /\ ~call.returned
    /\ call' = CallReturned(enforceThirdPersonForKyle(call.arg))
    /\ Untouched

FnNext ==
    \/ SampleReturn
    \/ ContextReturn
    \/ NormalizeReturn
    \/ KeywordScoreReturn
    \/ SearchReturn
    \/ SimilarityReturn
    \/ VoiceReturn

FnSpec == FnInit /\ [][FnNext]_vars

(***************************************************************************)
(* Properties                                                              *)
(***************************************************************************)

\* the requests of POST /query that are past the handler's entry
QueryRequests == {r \in Slots : req[r].handler = "query"}

\* the requests of POST /query whose q passed the input check and q.trim()
RoutedRequests == {r \in QueryRequests : req[r].route # "none"}

\* token Jaccard similarity of at least 0.8
IsRepeat(prev, next) ==
    LET similarity == textSimilarity(prev, next)
    IN  10 * similarity.n >= 8 * similarity.d

NoNetworkCalls(rec) == rec.llmCalls = <<>> /\ rec.embedInputs = <<>>

\* the text without its line breaks
Words(t) == SelectSeq(t, LAMBDA w : w # NL)

\* C1 as the spec words it: in POST /query, whenever lastBotMessage is
\* non-empty and the first generated answer repeats it, exactly one
\* regeneration call is made (two generation calls in all).
C1_EveryRepeatRegenerates ==
    \A r \in QueryRequests :
        (/\ req[r].lastBotMessage # <<>>
         /\ req[r].firstAnswer # <<>>
         /\ IsRepeat(req[r].lastBotMessage, req[r].firstAnswer))
        => Len(req[r].llmCalls) = 2

\* C1, amended: on the retrieval-and-generation path of POST /query, when
\* lastBotMessage is non-empty and the first answer repeats it, exactly one
\* regeneration call is made and never a third; if the regenerated answer
\* is empty or still a repeat, the first answer (sanitized) is returned
\* with status 200, otherwise the regenerated one.  The joke easter egg
\* returns its generated text without this pass.
C1_OneRegeneration ==
    \A r \in QueryRequests :
        LET rec == req[r]
            keepsFirst == rec.altRaw = <<>> \/ IsRepeat(rec.lastBotMessage, rec.altRaw)
        IN  /\ (/\ rec.route = "retrieve"
                /\ rec.pc \notin {"idle", "embed"}
                /\ rec.lastBotMessage # <<>>
                /\ rec.firstAnswer # <<>>
                /\ IsRepeat(rec.lastBotMessage, rec.firstAnswer))
               => /\ rec.pc \in {"gen2", "done"}
                  /\ Len(rec.llmCalls) = 2
                  /\ rec.llmCalls[2].previous = rec.lastBotMessage
                  /\ (rec.pc = "done" /\ rec.thrown = <<>>)
                     => rec.response =
                            AnswerResponse(sanitizeOutput(IF keepsFirst THEN rec.firstAnswer
                                                          ELSE rec.altRaw))
            /\ (rec.route = "joke" /\ rec.pc = "done") => Len(rec.llmCalls) = 1

\* C1's case: the first answer and the regenerated one both repeat the
\* previous message, and the first one is what the response carries
C1_Witness ==
    \E r \in QueryRequests :
        /\ req[r].pc = "done"
        /\ req[r].lastBotMessage = TextA
        /\ req[r].firstAnswer = TextA2
        /\ req[r].altRaw = TextA
        /\ Len(req[r].llmCalls) = 2
        /\ req[r].response.status = 200
        /\ req[r].response.answer = sanitizeOutput(TextA2)

\* C2: for every POST /query request, at every point of its execution, at
\* most one embedding call and at most two generation calls have been made.
C2_CallBudget ==
    \A r \in QueryRequests :
        /\ Len(req[r].embedInputs) <= 1
        /\ Len(req[r].llmCalls) <= 2

\* C2's case: a request that used its whole budget
C2_Witness ==
    \E r \in QueryRequests :
        /\ req[r].pc = "done"
        /\ Len(req[r].embedInputs) = 1
        /\ Len(req[r].llmCalls) = 2

\* C3 as the spec words it: the hostile detector is tested first, so a query
\* matching the hostile pattern gets the hostile redirect and no generation
\* call is made for it.
C3_HostileFirst ==
    \A r \in RoutedRequests :
        MatchAny(Lower(originalQueryOf(req[r].q)), hostileRegex)
        => req[r].route = "hostile" /\ req[r].llmCalls = <<>>

\* the spec's paths 1 to 11, in the spec's order
DocumentedOrder == <<
    [route |-> "hostile", pattern |-> hostileRegex],
    [route |-> "emotional", pattern |-> emotionalRegex],
    [route |-> "about_kyle", pattern |-> aboutKyleRegex],
    [route |-> "full_info", pattern |-> fullInfoQuery],
    [route |-> "capability", pattern |-> capabilityQuery],
    [route |-> "pay", pattern |-> payQuery],
    [route |-> "what_know", pattern |-> whatKnow],
    [route |-> "wins", pattern |-> winsQuery],
    [route |-> "sop", pattern |-> sopQuery],
    [route |-> "weakness", pattern |-> weaknessQuery],
    [route |-> "challenge", pattern |-> challengeTriggers] >>

\* C3, amended: the joke easter egg is tested before every intent path and
\* answers with one generation call; for a query it does not match, the
\* paths are tested in the order 1..14 and the first that matches alone
\* answers: a query matching the hostile pattern gets the hostile redirect
\* with no network call, whatever else it matches.
C3_JokeThenPriorityOrder ==
    \A r \in RoutedRequests :
        LET rec == req[r]
            lower == Lower(originalQueryOf(rec.q))
            hits == {i \in DOMAIN DocumentedOrder : MatchAny(lower, DocumentedOrder[i].pattern)}
            hit(i) == i \in hits
            anyHit == hits # {}
            lowSignal == isVagueLowSignal(lower)
            bareAffirm == /\ lower \in affirm
                          /\ rec.lastBotMessage # <<>>
                          /\ extractKeywords(rec.lastBotMessage) = <<>>
        IN  IF MatchAny(lower, jokeRegex)
            THEN rec.route = "joke" /\ Len(rec.llmCalls) = 1
            ELSE /\ \A i \in DOMAIN DocumentedOrder :
                        (hit(i) /\ \A j \in 1..(i - 1) : ~hit(j))
                        => rec.route = DocumentedOrder[i].route
                 /\ hit(1) => /\ rec.pc = "done"
                              /\ rec.response = AnswerResponse(sanitizeOutput(HostileText))
                              /\ NoNetworkCalls(rec)
                 /\ (~anyHit /\ lowSignal) => rec.route = "low_signal"
                 /\ (~anyHit /\ ~lowSignal /\ bareAffirm) => rec.route = "which_thread"
                 /\ rec.route \in {"off_topic", "retrieve"}
                    => ~anyHit /\ ~lowSignal /\ ~bareAffirm

\* C3's case: a query matching both the hostile and the weakness pattern was
\* answered with the hostile redirect
C3_Witness ==
    \E r \in RoutedRequests :
        /\ req[r].q.toks = <<"stupid", "weakness">>
        /\ req[r].pc = "done"
        /\ req[r].response.answer = sanitizeOutput(HostileText)

\* the canned classifier paths
CannedRoutes ==
    {"hostile", "emotional", "about_kyle", "full_info", "capability", "pay", "what_know",
     "wins", "sop", "weakness", "challenge", "low_signal", "which_thread", "off_topic"}

\* C4: a request answered through a canned classifier path gets that path's
\* fixed text (the literal passed through sanitizeOutput, which changes
\* nothing of it but line breaks) and makes no embedding and no generation
\* call; the query "k" gets the clarification text.
C4_CannedNoNetwork ==
    \A r \in RoutedRequests :
        LET rec == req[r]
            originalQuery == originalQueryOf(rec.q)
        IN  /\ rec.route \in CannedRoutes
               => /\ rec.pc = "done"
                  /\ rec.response.status = 200
                  /\ rec.response.kind = "answer"
                  /\ rec.response.answer = sanitizeOutput(cannedText(rec.route, originalQuery))
                  /\ Words(rec.response.answer) = cannedText(rec.route, originalQuery)
                  /\ NoNetworkCalls(rec)
            /\ rec.q.toks = <<"k">>
               => rec.route = "low_signal" /\ Words(rec.response.answer) = ClarifyText

\* C4's case: the query "k" was answered with the clarification text
C4_Witness ==
    \E r \in RoutedRequests :
        /\ req[r].q.toks = <<"k">>
        /\ req[r].pc = "done"
        /\ Words(req[r].response.answer) = ClarifyText
        /\ NoNetworkCalls(req[r])

\* the knowledge-base entries whose question equals the query, case aside
ExactEntries(kb, originalQuery) ==
    {i \in DOMAIN kb : Lower(kb[i].question) = Lower(originalQuery)}

C6_AffirmativeRewrite ==
    \A r \in RoutedRequests :
        LET rec == req[r]
            affirmative == /\ Lower(originalQueryOf(rec.q)) \in affirm
                           /\ rec.lastBotMessage # <<>>
            rewritten == affirmativeRewrite(rec.lastBotMessage)
        IN  /\ (affirmative /\ extractKeywords(rec.lastBotMessage) # <<>>)
               => /\ \A i \in DOMAIN rec.llmCalls : rec.llmCalls[i].query = rewritten
                  /\ \A i \in DOMAIN rec.embedInputs : rec.embedInputs[i] = rewritten
            /\ (affirmative /\ extractKeywords(rec.lastBotMessage) = <<>>)
               => rec.response = AnswerResponse(sanitizeOutput(WhichThreadText))

C8_EmbeddingFailureDegrades ==
    \A r \in QueryRequests :
        LET rec == req[r]
            lexical == keywordScoreAll(knowledgeBase, originalQueryOf(rec.q))
            positive == {i \in DOMAIN lexical : lexical[i].score.n > 0}
            ranked == rec.relevantQAs
            listed == {ranked[k].index : k \in DOMAIN ranked}
        IN  rec.embedReply.kind = "failed"
            => /\ \A k \in DOMAIN ranked : ranked[k] = lexical[ranked[k].index]
               /\ listed \subseteq positive
               /\ Cardinality(listed) = Len(ranked)
               /\ Len(ranked) = IF Cardinality(positive) < QuerySearchLimit
                                THEN Cardinality(positive) ELSE QuerySearchLimit
               /\ \A k \in 1..(Len(ranked) - 1) : ranked[k].score.n >= ranked[k + 1].score.n
               /\ \A i \in positive \ listed, k \in DOMAIN ranked :
                      lexical[i].score.n <= ranked[k].score.n
               /\ rec.pc \in {"gen1", "gen2", "done"}
               /\ (rec.pc = "done" /\ rec.response.kind = "error")
                  => rec.thrown = GenErrorMessage /\ rec.llmCalls # <<>>

\* C8's case: the embedding call failed, seven entries had a lexical score
\* above 0, six were kept, and the request was answered
C8_Witness ==
    \E r \in QueryRequests :
        /\ req[r].embedReply.kind = "failed"
        /\ Len(req[r].relevantQAs) = QuerySearchLimit
        /\ Len(knowledgeBase) > QuerySearchLimit
        /\ req[r].pc = "done"
        /\ req[r].response.kind = "answer"

\* C9: a request whose q is missing, empty, or empty once trimmed is answered
\* with a 400 error, and no classification, retrieval or generation runs.
C9_EmptyQueryRejected ==
    \A r \in QueryRequests :
        (req[r].q.kind = "missing" \/ (req[r].q.kind = "string" /\ req[r].q.toks = <<>>))
        => /\ req[r].pc = "done"
           /\ req[r].response.kind = "error"
           /\ req[r].response.status = 400
           /\ req[r].route = "none"
           /\ NoNetworkCalls(req[r])

\* C10: on every failure path of POST /query the response carries no raw
\* exception message: neither the error object nor the answer holds the
\* message of the exception that was thrown.
C10_NoRawExceptionMessage ==
    \A r \in QueryRequests :
        (req[r].pc = "done" /\ req[r].thrown # <<>>)
        => /\ req[r].response.message # req[r].thrown
           /\ req[r].response.answer # req[r].thrown

\* C11: a generation call that returns nothing without throwing is answered
\* with a non-empty answer and status 200, and a 500 response is given only
\* when a generation call of the request threw.
C11_OnlyGenerationThrowIs500 ==
    \A r \in QueryRequests :
        req[r].pc = "done"
        => /\ (req[r].llmCalls # <<>> /\ req[r].thrown = <<>>)
              => /\ req[r].response.kind = "answer"
                 /\ req[r].response.status = 200
                 /\ req[r].response.answer # <<>>
           /\ req[r].response.status = 500
              => /\ req[r].llmCalls # <<>>
                 /\ req[r].thrown = GenErrorMessage

\* C12: whatever the knowledge-base file was at startup, knowledgeBase.qaDatabase
\* is a sequence (empty when the load failed), GET / answers with status 200
\* and no POST /query with a string q throws for lack of a knowledge base.
C12_LoadFailureLeavesEmptyDatabase ==
    /\ qaDatabaseDefined
    /\ \A r \in Slots :
          req[r].pc = "done"
          => /\ req[r].handler = "root"
                => (req[r].response.status = 200 /\ req[r].thrown = <<>>)
             /\ req[r].handler = "query"
                => req[r].thrown \in {<<>>, GenErrorMessage, TypeErrorMessage}

\* C13 as stated: a query matching the weakness pattern never has a
\* generation call made for it and is answered with a canned text.
C13_WeaknessNeverGenerates ==
    \A r \in RoutedRequests :
        MatchAny(Lower(originalQueryOf(req[r].q)), weaknessQuery)
        => /\ req[r].llmCalls = <<>>
           /\ req[r].route \in CannedRoutes

\* C13: a query matching the weakness pattern and not the joke pattern is
\* answered at once by a canned branch with that branch's fixed text, and
\* no generation call is made for the request.
C13_WeaknessCannedUnlessJoke ==
    \A r \in RoutedRequests :
        LET rec == req[r]
            originalQuery == originalQueryOf(rec.q)
            lower == Lower(originalQuery)
        IN  (MatchAny(lower, weaknessQuery) /\ ~MatchAny(lower, jokeRegex))
            => /\ rec.route \in CannedRoutes
               /\ rec.pc = "done"
               /\ rec.llmCalls = <<>>
               /\ rec.response = AnswerResponse(sanitizeOutput(cannedText(rec.route, originalQuery)))

\* C13's case: a weakness question was answered with the weakness statement
C13_Witness ==
    \E r \in RoutedRequests :
        /\ MatchAny(Lower(originalQueryOf(req[r].q)), weaknessQuery)
        /\ req[r].route = "weakness"
        /\ req[r].pc = "done"
        /\ Words(req[r].response.answer) = WeaknessText
        /\ req[r].llmCalls = <<>>

\* the standalone first-person words, lower-cased
FirstPersonWords == {"i", "i'm", "i've", "i'd", "i'll", "my", "me", "myself"}

\* C14: every answer of POST /query sent with status 200 holds, on each of
\* its lines that does not name Agent K, no first-person word in any letter
\* case.
C14_AnswersHoldNoFirstPerson ==
    \A r \in QueryRequests :
        (req[r].pc = "done" /\ req[r].response.kind = "answer")
        => LET lines == SplitLines(req[r].response.answer)
           IN  \A k \in DOMAIN lines :
                   ContainsPhrase(Lower(lines[k]), <<"agent", "k">>)
                   \/ \A i \in DOMAIN lines[k] : LowerWord(lines[k][i]) \notin FirstPersonWords

SectionLabels == {"Situation", "Task", "Action", "Result"}

\* the labels that open a section of the text: the word followed by a colon
LabelsIn(t) == {t[i] : i \in {j \in DOMAIN t : j < Len(t) /\ t[j] \in SectionLabels
                                                /\ t[j + 1] = ":"}}

\* the words the text holds
WordsIn(t) == {t[i] : i \in DOMAIN t}

\* the phrases whose sentence sanitizeOutput deletes
DeletedPhrases ==
    {<<"same", "energy">>, <<"i'm", "here">>, <<"i", "am", "here">>, <<"kyle", "is", "here">>,
     <<"try", "asking", "something", "about", "kyle">>, <<"here's", "a", "light", "one">>,
     <<"he", "is", "agent", "k">>}

\* the requests of POST /query past retrieval whose query holds a STAR trigger
StarRequests ==
    {r \in RoutedRequests :
        /\ req[r].route = "retrieve"
        /\ req[r].pc \in {"gen1", "gen2", "done"}
        /\ detectSTARQuery(originalQueryOf(req[r].q))
        /\ ~isStrongHit(req[r].q, req[r].relevantQAs)}

SuggestRequests == {r \in Slots : req[r].handler = "suggest" /\ req[r].pc = "done"}

WeakMatchRequests ==
    {r \in RoutedRequests :
        /\ req[r].route = "retrieve"
        /\ req[r].llmCalls # <<>>
        /\ knowledgeBase # <<>>
        /\ intentOf(req[r].q) # "technical"
        /\ \/ req[r].relevantQAs = <<>>
           \/ RatLess(topScoreOf(req[r].relevantQAs), WEAK_THRESHOLD)}

C18_SampleSpansKnowledgeBase ==
    (call.fn = "sampleIndices" /\ call.returned)
    => LET total == call.arg
           sample == call.result
           gap == IF Len(sample) > 1 THEN sample[2] - sample[1] ELSE 1
       IN  /\ Len(sample) = (IF total < MaxSampleSize THEN total ELSE MaxSampleSize)
           /\ sample[1] = 1
           /\ \A k \in 2..Len(sample) : sample[k] - sample[k - 1] = gap /\ gap >= 1
           /\ total - sample[Len(sample)] <= gap

\* C19: the context built for generation lists at most MaxSampleSize entries,
\* is never longer than ContextCharBudget plus the truncation marker, and
\* ends in the marker exactly when it was cut.
C19_ContextBounded ==
    (call.fn = "contextText" /\ call.returned)
    => /\ call.result.entries <= MaxSampleSize
       /\ call.result.length <= ContextCharBudget + 1 + Len(TruncationMarker)
       /\ call.result.truncated <=> (call.result.length > ContextCharBudget)

\* C20: normalizeQuery does not throw on a string or on undefined, applying
\* it to its own result changes nothing, and an empty or undefined input
\* comes back as it went in.
C20_NormalizeIdempotentTotal ==
    (call.fn = "normalizeQuery" /\ call.returned /\ call.arg.kind \in {"missing", "string"})
    => /\ ~call.result.threw
       /\ normalizeQueryOf(call.result.value) = call.result
       /\ Falsy(call.arg) => call.result.value = call.arg

\* a text with a misspelling was normalized, and normalizing the result
\* again gives the same text
C20_Witness ==
    /\ call.fn = "normalizeQuery"
    /\ call.returned
    /\ call.arg.kind = "string"
    /\ ~call.result.threw
    /\ call.result.value.toks # call.arg.toks
    /\ normalizeQueryOf(call.result.value) = call.result

\* the text holds a word of more than 2 characters that the entry holds too
MatchesEntry(text, qa) ==
    \E i \in DOMAIN text :
        /\ text[i] \notin Glued
        /\ WordLen(text[i]) > 2
        /\ \/ Includes(Lower(qa.question), <<LowerWord(text[i])>>)
           \/ Includes(Lower(qa.answer), <<LowerWord(text[i])>>)
           \/ \E k \in DOMAIN qa.keywords : Includes(Lower(qa.keywords[k]), <<LowerWord(text[i])>>)

\* C21: the lexical score of an entry is an integer >= 0, and it does not
\* decrease when text that matches the entry is added to the query.
C21_ScoreNeverDecreases ==
    (call.fn = "keywordScoreAll" /\ call.returned)
    => \A idx \in DOMAIN call.arg.kb :
          /\ call.result.before[idx].score.d = 1
          /\ call.result.before[idx].score.n >= 0
          /\ MatchesEntry(call.arg.added, call.arg.kb[idx])
             => call.result.after[idx].score.n >= call.result.before[idx].score.n

\* the calls of hybridSearchKnowledgeBase for which a query embedding came back
FusedCalls ==
    /\ call.fn = "hybridSearchKnowledgeBase"
    /\ call.returned
    /\ call.arg.enabled
    /\ call.arg.reply.kind = "vector"

\* 0.35 * (lexical score / maximum lexical score) + 0.65 * raw cosine similarity
RawFusedScore(idx) ==
    LET scored == keywordScoreAll(call.arg.kb, call.arg.query)
    IN  combinedScore(scored[idx].score.n, MaxScore(scored),
                      cosineSimilarity(call.arg.reply.vector, call.arg.emb[idx].embedding))

\* C22: with a query embedding, an entry is in the result exactly when
\* 0.35 * normalized lexical score + 0.65 * raw cosine similarity (negative
\* values included) is above 0, and that sum is its score.
C22_FusedScoreUsesRawCosine ==
    (FusedCalls /\ call.arg.limit >= Len(call.arg.kb))
    => \A idx \in DOMAIN call.arg.kb :
          LET expected == RawFusedScore(idx)
              at == {i \in DOMAIN call.result.first : call.result.first[i].index = idx}
          IN  IF expected.n > 0
              THEN \E i \in at : call.result.first[i].score = expected
              ELSE at = {}

\* C23: two calls of hybridSearchKnowledgeBase on the same inputs return the
\* same sequence; it holds at most `limit` entries, each index at most once,
\* scores do not rise along it, and entries of equal score stand in the order
\* of their indices.
C23_RankingDeterministicSortedCut ==
    (call.fn = "hybridSearchKnowledgeBase" /\ call.returned)
    => LET ranked == call.result.first
       IN  /\ call.result.again = ranked
           /\ Len(ranked) <= call.arg.limit
           /\ \A i, j \in DOMAIN ranked :
                 i < j => /\ ranked[i].index # ranked[j].index
                          /\ RatLeq(ranked[j].score, ranked[i].score)
                          /\ ranked[i].score = ranked[j].score
                             => ranked[i].index < ranked[j].index

\* a ranking was cut at the limit and holds two entries of the same score
C23_Witness ==
    /\ call.fn = "hybridSearchKnowledgeBase"
    /\ call.returned
    /\ Len(call.result.first) = call.arg.limit
    /\ call.arg.limit < Len(call.arg.kb)
    /\ \E i \in 1..(Len(call.result.first) - 1) :
          call.result.first[i].score = call.result.first[i + 1].score

\* the distinct lower-cased words of more than 3 characters of a text
LongWords(t) ==
    {LowerWord(t[i]) : i \in {j \in DOMAIN t : t[j] \notin Glued /\ WordLen(t[j]) > 3}}

\* C24: a text with a word of more than 3 characters is highly similar to
\* itself; two texts that share no such word, or one of which has none, are
\* not; and the answer does not depend on the order of the two texts.
C24_SimilarityReflexiveSymmetric ==
    (call.fn = "isHighlySimilarAnswer" /\ call.returned)
    => /\ call.result.there = call.result.back
       /\ (call.arg.prev = call.arg.next /\ LongWords(call.arg.prev) # {})
          => call.result.there
       /\ LongWords(call.arg.prev) \cap LongWords(call.arg.next) = {}
          => ~call.result.there

\* a text with words of more than 3 characters was compared with itself
C24_Witness ==
    /\ call.fn = "isHighlySimilarAnswer"
    /\ call.returned
    /\ LongWords(call.arg.prev) # {}
    /\ call.arg.prev = call.arg.next
    /\ call.result.there

\* C25: enforceThirdPersonForKyle keeps the number of lines, returns every
\* line that names Agent K as it was, leaves no first-person word (in any
\* letter case) on any other line, and sanitizeOutput strips phrases from its
\* result.
C25_EveryFirstPersonRewritten ==
    (call.fn = "enforceThirdPersonForKyle" /\ call.returned /\ call.arg # <<>>)
    => LET before == SplitLines(call.arg)
           after == SplitLines(call.result)
       IN  /\ Len(after) = Len(before)
           /\ \A k \in DOMAIN before :
                 IF ContainsPhrase(Lower(before[k]), <<"agent", "k">>)
                 THEN after[k] = before[k]
                 ELSE \A i \in DOMAIN after[k] :
                          LowerWord(after[k][i]) \notin FirstPersonWords
           /\ sanitizeOutput(call.arg) = formatParagraphs(sanitizePhrases(call.result))

\* C26: once embeddings are disabled they stay disabled, no request holds an
\* embedding call, and every entry a retrieval returns carries its lexical
\* score.
C26_DegradedIsPermanent ==
    [][~EMBEDDINGS_ENABLED
       => /\ ~EMBEDDINGS_ENABLED'
          /\ \A r \in Slots :
                /\ req'[r].embedInputs = <<>>
                /\ req'[r].embedReply = NotCalled
                /\ req'[r].pc # "embed"
                /\ \A k \in DOMAIN req'[r].relevantQAs :
                      req'[r].relevantQAs[k]
                      = keywordScoreAll(knowledgeBase,
                                        originalQueryOf(req'[r].q))[req'[r].relevantQAs[k].index]]_vars

\* with embeddings disabled and a knowledge base loaded, a query was
\* answered from a retrieval
C26_Witness ==
    /\ ~EMBEDDINGS_ENABLED
    /\ knowledgeBase # <<>>
    /\ \E r \in QueryRequests :
          /\ req[r].pc = "done"
          /\ req[r].relevantQAs # <<>>
          /\ req[r].response.kind = "answer"

\* C27: in every interleaving of POST /query and POST /suggest requests the
\* list of recent suggestions holds at most 5 entries, no two of them equal
\* when letter case is ignored; a step that changes it is the entry of one
\* POST /query request, which puts its query first and keeps the other
\* entries of the list as it stood just before, in their order.
C27_RecentListBoundedDistinctOrdered ==
    [][/\ Len(recentSuggestionPhrases') <= 5
       /\ \A i, j \in DOMAIN recentSuggestionPhrases' :
             i < j => Lower(recentSuggestionPhrases'[i]) # Lower(recentSuggestionPhrases'[j])
       /\ recentSuggestionPhrases' # recentSuggestionPhrases
          => \E r \in Slots :
                LET marked == originalQueryOf(req'[r].q)
                    kept == SelectSeq(recentSuggestionPhrases,
                                      LAMBDA x : Lower(x) # Lower(marked))
                IN  /\ req[r].pc = "idle"
                    /\ req'[r].handler = "query"
                    /\ recentSuggestionPhrases'[1] = marked
                    /\ Tail(recentSuggestionPhrases')
                       = SubSeq(kept, 1, Len(recentSuggestionPhrases') - 1)
                    /\ Len(recentSuggestionPhrases') = IF Len(kept) < 4 THEN Len(kept) + 1 ELSE 5]_vars

\* while one request that marked its query waits for a reply, the entry of a
\* second request marked another query and pushed the oldest of five entries
\* off the list
C27_Witness ==
    /\ Len(recentSuggestionPhrases) = 5
    /\ \E r1, r2 \in Slots :
          /\ r1 # r2
          /\ req[r1].handler = "query"
          /\ req[r1].pc \in {"embed", "gen1"}
          /\ req[r1].q.toks = recentSuggestionPhrases[2]
          /\ req[r2].handler = "query"
          /\ req[r2].q.toks = recentSuggestionPhrases[1]
          /\ recentSuggestionPhrases[1] = <<"How", "did", "Kyle", "improve", "label", "quality">>

\* the requests of POST /query whose retrieval ran without a query embedding
LexicalOnlyRequests ==
    {r \in QueryRequests :
        /\ req[r].route = "retrieve"
        /\ req[r].pc \in {"gen1", "gen2", "done"}
        /\ ~EMBEDDINGS_ENABLED \/ req[r].embedReply.kind = "failed"}

C29_RegenerationThrowIs500 ==
    \A r \in Slots :
        LET rec == req[r]
        IN  (/\ rec.handler = "query" /\ rec.pc = "done"
             /\ Len(rec.llmCalls) = 2
             /\ rec.thrown # <<>>)
            => /\ rec.firstAnswer # <<>>
               /\ rec.response = queryCatch(NODE_ENV, rec.thrown)
               /\ rec.response.status = 500
               /\ rec.response.kind = "error"
               /\ rec.response.answer # sanitizeOutput(rec.firstAnswer)

C29_Witness ==
    \E r \in Slots :
        /\ req[r].handler = "query" /\ req[r].pc = "done"
        /\ req[r].firstAnswer = TextA
        /\ IsRepeat(req[r].lastBotMessage, req[r].firstAnswer)
        /\ Len(req[r].llmCalls) = 2
        /\ req[r].thrown = GenErrorMessage
        /\ req[r].response.status = 500

\* the POST /query requests that reached intent resolution and no canned branch
ResolvedRequests == {r \in QueryRequests : req[r].route = "retrieve"}

TechnicalRequests == {r \in ResolvedRequests : intentOf(req[r].q) = "technical"}

BehavioralRequests ==
    {r \in ResolvedRequests : isBehavioralOrPMCXQuestion(Lower(originalQueryOf(req[r].q)))}

KnowledgeBaseAnswers == {sanitizeOutput(knowledgeBase[i].answer) : i \in DOMAIN knowledgeBase}

====
